---- MODULE Spec2Model ----
(***************************************************************************)
(* Weather map: the map/marker synchronization engine of MapService,       *)
(* WeatherService and HomeComponent, as state machines.                    *)
(*                                                                         *)
(*   SpecFetch   the geodata gateway's processing of one Overpass response *)
(*   SpecWeather the weather gateway and its cache                         *)
(*   SpecLoader  the Leaflet loader driven by HomeComponent.initializeMap  *)
(*   Spec        the viewport debouncer and the marker reconciler          *)
(***************************************************************************)
EXTENDS Integers, Sequences, FiniteSets, Bags, TLC

VARIABLES
  currentZoomLevel,   \* MapService.currentZoomLevel
  overpassElements,   \* SpecFetch: the elements of the Overpass response in hand
  allLocations,       \* SpecFetch: the list delivered by observer.next, or NotYet
  weatherCache,       \* WeatherService.weatherCache: place id -> WeatherData or NoEntry
  currentWeather,     \* WeatherService.currentWeather (signal)
  weatherRequests,    \* the HTTP GETs to the forecast provider in flight (a bag)
  calls,              \* SpecWeather: the gateway calls made so far, with what each got
  L,                  \* MapService.L: the handle held by the service
  windowL,            \* window.L: the shared slot
  leafletLoadPromise, \* MapService.leafletLoadPromise: none, pending or its value
  loadAttempts,       \* MapService.loadAttempts
  loaderPc,           \* where the running loadLeaflet() is suspended
  ctrlPc,             \* where HomeComponent's initialization stands
  retryCount,         \* the retryCount argument of the running initializeMap
  caller,             \* who awaits ensureLeafletLoaded: initializeMap or reloadLeaflet
  ctrlDelay,          \* the delay (ms) of the controller's pending timer, 0 if none
  hasMap,             \* MapService.map is set
  isInitializing,     \* MapService.isInitializing
  markersAddedDuringInit, \* MapService.markersAddedDuringInit
  cycleOutcomes,      \* history: the outcomes of the imports of the current load cycle
  cycles,             \* history: load cycles started
  failedCycles,       \* history: load cycles that returned null after 3 attempts
  mapZoom,            \* the Leaflet map: map.getZoom()
  mapWest,            \* the Leaflet map: the west edge of map.getBounds()
  notifications,      \* the Leaflet map: notifications of a gesture still to be fired
  pending,            \* debounceTime: the last raw event, not yet emitted (or NoEvent)
  timer,              \* debounceTime: ms left of the quiet period
  pipelineAlive,      \* the subscription of the debounce pipeline has not errored
  queries,            \* the geodata fetches in flight with a subscribed observer (a bag)
  markers,            \* MapService.markers
  markerLocationIds,  \* MapService.markerLocationIds
  markerToLocationId, \* MapService.markerToLocationId
  initTimer,          \* the 1000 ms timer of addWeatherMarkers
  lastRaw,            \* history: the last raw event given to mapMoveSubject
  sinceRaw,           \* history: ms since that raw event (capped at the quiet period)
  burstEmits,         \* history: events emitted since that raw event
  emittedLast,        \* history: the last event emitted was the last raw event then
  lastGesture,        \* history: the last gesture: "pan", or the first notification of a zoom
  lastEvent,          \* history: the last emitted event's tag and what its clear pass did
  lastResult,         \* history: the places returned by the last emitted event's query
  platformId,         \* PLATFORM_ID: "browser", or "server" when rendering on the server
  openMeteoResponse,  \* SpecForecast: the response of the forecast provider in hand
  weatherData,        \* SpecForecast: the WeatherData mapped from it, once mapped
  markerClusterGroup, \* MapService.markerClusterGroup: whether set, and the markers in it
  markersLayer,       \* MapService.markersLayer: the markers in the layer group
  loads               \* SpecOverlap: the calls of loadLeaflet() started, each with its position

fetchVars == <<overpassElements, allLocations>>
weatherVars == <<weatherCache, currentWeather, weatherRequests>>
loaderVars == <<L, windowL, leafletLoadPromise, loadAttempts, loaderPc>>
ctrlVars == <<ctrlPc, retryCount, caller, ctrlDelay>>
flagVars == <<hasMap, isInitializing, markersAddedDuringInit>>
loadHistory == <<cycleOutcomes, cycles, failedCycles>>
initVars == <<loaderVars, ctrlVars, flagVars, loadHistory>>
mapVars == <<mapZoom, mapWest, notifications>>
debounceVars == <<pending, timer, pipelineAlive>>
markerVars == <<markers, markerLocationIds, markerToLocationId>>
recHistory == <<lastRaw, sinceRaw, burstEmits, emittedLast, lastGesture, lastEvent, lastResult>>
recVars == <<mapVars, debounceVars, queries, markerVars, initTimer, recHistory>>
forecastVars == <<openMeteoResponse, weatherData>>
sinkVars == <<markerClusterGroup, markersLayer>>
vars == <<currentZoomLevel, fetchVars, weatherVars, calls, initVars, recVars, platformId,
         forecastVars, sinkVars, loads>>

NotYet == "NotYet"

(***************************************************************************)
(* Bounds                                                                  *)
(***************************************************************************)
MaxElems == 4
MaxCalls == 3
NumSnapshots == 2
MaxMarkers == 2
MaxRequests == 2
CloseZoom == 9
MaxReloads == 2
MaxDays == 7
MaxCode == 100

(***************************************************************************)
(* Program constants                                                       *)
(***************************************************************************)
TileMaxZoom == 19
DefaultRankThreshold == 9
MAX_LOAD_ATTEMPTS == 3
MaxInitRetries == 3
LoadBackoffMs == 500
SettleMs == 200
ContainerRetryMs == 500
InitRetryMs == 1000
ReloadWaitMs == 500
DEBOUNCE_MS == 500
InitPhaseMs == 1000
InitialZoom == 6
ForecastEnd == 6
ZoomLevels == 0..TileMaxZoom

(***************************************************************************)
(* GeodataGateway: fetchLocationsFromOverpass, the processing of a         *)
(* response (filter, map, filter, sort).                                   *)
(***************************************************************************)
NoCenter == [lat |-> 0, lon |-> 0]

\* An OverpassElement: tags.place and tags.name ("" when absent),
\* tags.capital ("" when absent), lat/lon (0 when absent) and the optional
\* center (NoCenter when absent).
Node(id, place, name, capital, lat, lon, center) ==
  [id |-> id, place |-> place, name |-> name, capital |-> capital,
   lat |-> lat, lon |-> lon, center |-> center]

\* The nodes the geodata service knows. Six are named, located places that
\* differ in their capital tag ("" stands for no tag); the others lack the
\* place tag, the name or the coordinates, or are located by their center
\* only, this one with a capital tag of white space (" ").
OverpassNodes ==
  { Node(1, "city", "Madrid",    "yes", 40, 1, NoCenter),
    Node(2, "city", "Sevilla",   "0",   40, 2, NoCenter),
    Node(3, "city", "Toledo",    "5",   40, 3, NoCenter),
    Node(4, "town", "Lerma",     "9",   40, 2, NoCenter),
    Node(5, "village", "Ayllon", "12",  40, 2, NoCenter),
    Node(6, "city", "Soria",     "",    40, 3, NoCenter),
    Node(7, "",     "Nowhere",   "0",   40, 1, NoCenter),
    Node(8, "city", "",          "0",   40, 2, NoCenter),
    Node(9, "city", "Avila",     "0",   0,  0, NoCenter),
    Node(10, "city", "Burgos",   " ",   0,  0, [lat |-> 40, lon |-> 3]) }

NodeById(id) == CHOOSE n \in OverpassNodes : n.id = id

\* The strings of the capital tags that Number() takes for a number, with
\* their values: the decimal strings, and white space, which it takes for 0.
NumericTags == ("0" :> 0) @@ ("5" :> 5) @@ ("9" :> 9) @@ ("12" :> 12) @@ (" " :> 0)

\* A JavaScript number is modelled as a set: {n} for n, {} for NaN.
NaN == {}
Num(n) == {n}
Val(x) == CHOOSE n \in x : TRUE

\* Number(tags.capital): NaN for an absent (undefined) tag and for a string
\* that is not a numeric literal.
ToNumber(tag) == IF tag \in DOMAIN NumericTags THEN Num(NumericTags[tag]) ELSE NaN

\* a <= b of JavaScript numbers: false when either side is NaN.
JsLeq(a, b) == \E x \in a, y \in b : x <= y

\* The element -> WeatherLocation mapping (lines 1340-1354).
ToLocation(element) ==
  [id |-> element.id,
   name |-> IF element.name /= "" THEN element.name ELSE "Unknown",
   latitude |-> IF element.lat /= 0 THEN element.lat
                ELSE IF element.center /= NoCenter THEN element.center.lat ELSE 0,
   longitude |-> IF element.lon /= 0 THEN element.lon
                 ELSE IF element.center /= NoCenter THEN element.center.lon ELSE 0,
   place |-> element.place,
   capital |-> IF element.capital = "yes" THEN Num(1) ELSE ToNumber(element.capital)]

\* Mutant of RankThreshold: the default threshold whatever the zoom level.
RankThresholdAlwaysDefault(zoom) == DefaultRankThreshold

\* this.currentZoomLevel || 9: a zoom level of 0 is falsy.
RankThreshold(zoom) == IF zoom /= 0 THEN zoom ELSE DefaultRankThreshold

\* The predicate of the second filter (lines 1356-1362).
KeepLocation(location, zoom) ==
  /\ location.latitude /= 0
  /\ location.longitude /= 0
  /\ location.name /= "Unknown"
  /\ JsLeq(location.capital, Num(RankThreshold(zoom)))

RECURSIVE SelectSeqBy(_, _)
\* Array.prototype.filter: the elements that pass, in their order.
SelectSeqBy(s, keep) ==
  IF s = <<>> THEN <<>>
  ELSE IF Head(s) \in keep THEN <<Head(s)>> \o SelectSeqBy(Tail(s), keep)
       ELSE SelectSeqBy(Tail(s), keep)

RECURSIVE InsertByCapital(_, _)
\* Insert x behind every element the comparator does not put after it.
InsertByCapital(x, sorted) ==
  IF sorted = <<>> THEN <<x>>
  ELSE IF Val(Head(sorted).capital) - Val(x.capital) <= 0
       THEN <<Head(sorted)>> \o InsertByCapital(x, Tail(sorted))
       ELSE <<x>> \o sorted

\* Mutant of SortByCapital: the list is left in the order of the response.
SortByCapitalSkipped(s) == s

RECURSIVE SortByCapital(_)
\* Array.prototype.sort((a, b) => a.capital - b.capital): stable, ascending.
SortByCapital(s) ==
  IF s = <<>> THEN <<>>
  ELSE InsertByCapital(s[Len(s)], SortByCapital(SubSeq(s, 1, Len(s) - 1)))

\* The processing of a response (lines 1337-1366).
ProcessElements(elements, zoom) ==
  LET tagged == SelectSeqBy(elements, {e \in OverpassNodes : e.place /= ""})
      mapped == [i \in 1..Len(tagged) |-> ToLocation(tagged[i])]
      kept == SelectSeqBy(mapped,
                {l \in {mapped[i] : i \in 1..Len(mapped)} : KeepLocation(l, zoom)})
  IN  SortByCapital(kept)

(***************************************************************************)
(* WeatherDataGateway: WeatherService.getWeatherForLocation                *)
(***************************************************************************)
\* The places of the map: Madrid and Sevilla (cities) and Lerma (a town of
\* rank 9).
PlaceIds == {1, 2, 4}

Null == [kind |-> "null", location |-> 0, temperature |-> 0]
NoEntry == [kind |-> "absent", location |-> 0, temperature |-> 0]
Pending == [kind |-> "pending", location |-> 0, temperature |-> 0]

\* What the forecast provider may answer for a place: the mapped WeatherData
\* of getOpenMeteoWeatherData, told apart by its temperature.
Snapshots(id) ==
  {[kind |-> "data", location |-> id, temperature |-> t] : t \in 1..NumSnapshots}

\* Mutant of CacheHas: the cache is never found to hold an entry.
CacheHasNever(id) == FALSE

\* weatherCache.has(cacheKey)
CacheHas(id) == weatherCache[id] /= NoEntry

\* A request in flight: the place asked for and the subscriber of the call.
Request(id, sub) == [id |-> id, sub |-> sub]

\* Mutant of CacheAfterResponse: a failed call caches nothing and a
\* successful call is not cached either.
CacheNeverStored(id, data) == weatherCache

\* Mutant of CacheAfterResponse: whatever is delivered is stored, null too.
CacheStoresNull(id, data) == [weatherCache EXCEPT ![id] = data]

\* Mutant of CacheAfterResponse: a null response evicts the entry.
CacheEvictedOnNull(id, data) ==
  IF data /= Null THEN [weatherCache EXCEPT ![id] = data]
  ELSE [weatherCache EXCEPT ![id] = NoEntry]

\* tap(): a non-null WeatherData is stored under the place id.
CacheAfterResponse(id, data) ==
  IF data /= Null THEN [weatherCache EXCEPT ![id] = data] ELSE weatherCache

\* tap(): ... and becomes the current weather.
SignalAfterResponse(data) == IF data /= Null THEN data ELSE currentWeather

\* The forecast the provider holds for a place while the map is open.
Forecast(id) == [kind |-> "data", location |-> id, temperature |-> 1]

\* The HTTP GET, or the mapping of its response, ends in an error.
HttpError == [kind |-> "error", location |-> 0, temperature |-> 0]

\* What one HTTP GET for a place may end in.
HttpOutcomes(id) == Snapshots(id) \cup {HttpError}

\* Mutant of Delivered: the error is not caught.
DeliveredUncaught(outcome) == outcome

\* catchError: an error becomes of(null); a WeatherData passes.
Delivered(outcome) == IF outcome = HttpError THEN Null ELSE outcome

\* What the subscriber of one HTTP GET for a place may be given: a
\* WeatherData, or Null when the request fails.
Outcomes(id) == {Delivered(outcome) : outcome \in HttpOutcomes(id)}

\* The weather gateway at rest, as constructed.
WeatherIdle ==
  /\ weatherCache = [id \in PlaceIds |-> NoEntry]
  /\ currentWeather = Null
  /\ weatherRequests = EmptyBag

\* The marker layers before initMap: no cluster group, no marker in a layer.
SinkIdle == markerClusterGroup = [set |-> FALSE, layers |-> {}] /\ markersLayer = {}

(***************************************************************************)
(* WeatherService: the mapping of a response of the forecast provider,     *)
(* getOpenMeteoWeatherData / mapOpenMeteoForecast / getWeatherDescription  *)
(* / getWeatherIcon, and the marker icon of MapService.createWeatherIcon.  *)
(***************************************************************************)
\* A response with days daily entries, the first being today (time 0).
\* The daily weather codes are taken from a list of samples, starting at
\* some offset; code is the current weather code.
Response(days, offset, code) ==
  LET samples == <<0, 2, 3, 45, 61, 65, 95, 4>>
  IN  [current_weather |-> [weathercode |-> code],
       daily |-> [time |-> [i \in 1..days |-> i - 1],
                  weathercode |->
                    [i \in 1..days |-> samples[((offset + i) % Len(samples)) + 1]],
                  temperature_2m_min |-> [i \in 1..days |-> i],
                  temperature_2m_max |-> [i \in 1..days |-> i + 10]]]

\* No response in hand and nothing mapped.
ForecastIdle ==
  /\ openMeteoResponse = Response(0, 0, 0)
  /\ weatherData = [mapped |-> FALSE, description |-> "", icon |-> "", forecast |-> <<>>]

\* getWeatherDescription(weatherCode)
GetWeatherDescription(weatherCode) ==
  CASE weatherCode = 0 -> "Soleado"
    [] weatherCode \in {1, 2} -> "Parcialmente nublado"
    [] weatherCode = 3 -> "Nublado"
    [] weatherCode \in {45, 48} -> "Niebla"
    [] weatherCode \in {51, 53, 55} -> "Llovizna"
    [] weatherCode \in {61, 63} -> "Lluvia ligera"
    [] weatherCode = 65 -> "Lluvia intensa"
    [] weatherCode \in {71, 73, 75} -> "Nieve"
    [] weatherCode \in {80, 81, 82} -> "Lluvia intensa"
    [] weatherCode \in {95, 96, 99} -> "Tormenta"
    [] OTHER -> "Desconocido"

\* Mutant of GetWeatherIcon: the key of fog is one the marker icon does
\* not know.
GetWeatherIconFog(description) ==
  CASE description = "Soleado" -> "sun"
    [] description = "Parcialmente nublado" -> "cloud-sun"
    [] description = "Nublado" -> "cloud"
    [] description = "Niebla" -> "fog"
    [] description = "Llovizna" -> "cloud-sun-rain"
    [] description = "Lluvia ligera" -> "cloud-rain"
    [] description = "Lluvia intensa" -> "cloud-showers-heavy"
    [] description = "Tormenta" -> "bolt"
    [] description = "Nieve" -> "snowflake"
    [] OTHER -> "question"

\* getWeatherIcon(description)
GetWeatherIcon(description) ==
  CASE description = "Soleado" -> "sun"
    [] description = "Parcialmente nublado" -> "cloud-sun"
    [] description = "Nublado" -> "cloud"
    [] description = "Niebla" -> "foggy"
    [] description = "Llovizna" -> "cloud-sun-rain"
    [] description = "Lluvia ligera" -> "cloud-rain"
    [] description = "Lluvia intensa" -> "cloud-showers-heavy"
    [] description = "Tormenta" -> "bolt"
    [] description = "Nieve" -> "snowflake"
    [] OTHER -> "question"

\* createWeatherIcon(iconName): the text of the icon, by code point; "?"
\* is what the text stays at for a name the switch does not list.
CreateWeatherIcon(iconName) ==
  CASE iconName = "sun" -> "U+2600"
    [] iconName = "cloud-sun" -> "U+26C5"
    [] iconName = "cloud" -> "U+2601"
    [] iconName = "foggy" -> "U+1F301"
    [] iconName = "cloud-sun-rain" -> "U+1F326"
    [] iconName = "cloud-rain" -> "U+1F327"
    [] iconName = "cloud-showers-heavy" -> "U+26C8"
    [] iconName = "bolt" -> "U+26A1"
    [] iconName = "snowflake" -> "U+2744"
    [] iconName = "question" -> "U+2753"
    [] OTHER -> "?"

\* Mutant of MapOpenMeteoForecast: the loop starts at today.
MapOpenMeteoForecastFromToday(response) ==
  LET n == Len(response.daily.time)
      end == IF ForecastEnd < n THEN ForecastEnd ELSE n
  IN  [k \in 1..end |->
         LET description == GetWeatherDescription(response.daily.weathercode[k])
         IN  [date |-> response.daily.time[k],
              temperature |-> [min |-> response.daily.temperature_2m_min[k],
                               max |-> response.daily.temperature_2m_max[k]],
              description |-> description,
              icon |-> GetWeatherIcon(description)]]

\* mapOpenMeteoForecast(response): for (i = 1; i < Math.min(6, n); i++)
\* over the arrays indexed from 0, so that entry k of the result (from 1)
\* is made of the daily entries at k + 1 (from 1).
MapOpenMeteoForecast(response) ==
  LET n == Len(response.daily.time)
      end == IF ForecastEnd < n THEN ForecastEnd ELSE n
  IN  [k \in 1..(end - 1) |->
         LET description == GetWeatherDescription(response.daily.weathercode[k + 1])
         IN  [date |-> response.daily.time[k + 1],
              temperature |-> [min |-> response.daily.temperature_2m_min[k + 1],
                               max |-> response.daily.temperature_2m_max[k + 1]],
              description |-> description,
              icon |-> GetWeatherIcon(description)]]

(***************************************************************************)
(* ViewportChangeDebouncer: the events of mapMoveSubject                   *)
(***************************************************************************)
\* A bound-change event: the bounds (west and east edge; the places of the
\* model all lie on one latitude) and the zoom/pan tag.
Event(west, east, isZoomChange) ==
  [west |-> west, east |-> east, isZoomChange |-> isZoomChange]

NoEvent == Event(0, 0, FALSE)

\* A setTimeout: whether it is set, and the milliseconds left.
Timer(armed, left) == [armed |-> armed, left |-> left]

NoTimer == Timer(FALSE, 0)

\* History records: what the clear pass of the last emitted event did, and
\* what its geodata query returned.
Pass(tag, keptSome, removedSome) ==
  [tag |-> tag, keptSome |-> keptSome, removedSome |-> removedSome]

NoPass == Pass("none", FALSE, FALSE)

Result(state, ids) == [state |-> state, ids |-> ids]

NoResult == Result("none", {})

\* Mutant of FailedResult: the failure is swallowed and an empty list is
\* delivered.
FailedResultAsEmpty == Result("done", {})

\* observer.error(error): the subscriber's error handler runs, no list is
\* delivered.
FailedResult == Result("failed", {})

(***************************************************************************)
(* DynamicLibraryLoader: MapService.loadLeaflet / getLeaflet /             *)
(* ensureLeafletLoaded, and MapController: HomeComponent.initializeMap /   *)
(* handleLeafletLoadError with MapService.reloadLeaflet / initMap.         *)
(***************************************************************************)
\* A handle: none, the library with its Map constructor, or a partially
\* initialized library (no Map constructor).
NullHandle == "null"
ValidHandle == "valid"
NoMapHandle == "noMap"

\* Mutant of HasMapConstructor: any handle that is not null passes.
HasMapConstructorAnyHandle(handle) == handle /= NullHandle

\* leaflet && leaflet.Map / window.L && typeof window.L.Map === 'function'
HasMapConstructor(handle) == handle = ValidHandle

\* What one import('leaflet') may do.
ImportOutcomes == {ValidHandle, NoMapHandle, "throws"}

\* Mutant of MayRetryLoad: one attempt more than MAX_LOAD_ATTEMPTS.
MayRetryLoadOffByOne == loadAttempts <= MAX_LOAD_ATTEMPTS

\* if (this.loadAttempts < this.MAX_LOAD_ATTEMPTS) return this.loadLeaflet()
MayRetryLoad == loadAttempts < MAX_LOAD_ATTEMPTS

\* Mutant of MayRetryInit: one retry more.
MayRetryInitOffByOne(count) == count <= MaxInitRetries

\* if (retryCount < 3) in handleLeafletLoadError and initializeMap
MayRetryInit(count) == count < MaxInitRetries

\* Mutant of IsPlatformBrowser: every context counts as a browser.
IsPlatformBrowserAlways == TRUE

\* isPlatformBrowser(this.platformId)
IsPlatformBrowser == platformId = "browser"

\* MapService as constructed: no handle, no load promise, no attempt made.
LoaderIdle ==
  /\ L = NullHandle
  /\ leafletLoadPromise = "none"
  /\ loadAttempts = 0
  /\ loaderPc = "idle" /\ loads = <<>>

\* MapService and HomeComponent as constructed, before ngAfterViewInit's
\* timer has run initializeMap(0).
InitNotStarted ==
  /\ LoaderIdle
  /\ windowL = NullHandle
  /\ ctrlPc = "initializeMap" /\ retryCount = 0 /\ caller = "none" /\ ctrlDelay = 0
  /\ hasMap = FALSE /\ isInitializing = FALSE /\ markersAddedDuringInit = FALSE
  /\ cycleOutcomes = <<>> /\ cycles = 0 /\ failedCycles = 0

\* The map and the reconciler before the map exists.
RecIdle ==
  /\ mapZoom = InitialZoom /\ mapWest = 1 /\ notifications = <<>>
  /\ pending = NoEvent /\ timer = 0 /\ pipelineAlive = TRUE
  /\ queries = EmptyBag
  /\ markers = <<>> /\ markerLocationIds = {} /\ markerToLocationId = <<>>
  /\ initTimer = NoTimer
  /\ lastRaw = NoEvent /\ sinceRaw = DEBOUNCE_MS /\ burstEmits = 0
  /\ emittedLast = FALSE /\ lastGesture = "none"
  /\ lastEvent = NoPass /\ lastResult = NoResult

\* No geodata response in hand.
FetchIdle == overpassElements = <<>> /\ allLocations = NotYet

(***************************************************************************)
(* SpecWeather: callers of the weather gateway, each subscribing once.     *)
(***************************************************************************)
\* One gateway call: the place, whether it issued an HTTP GET, what it
\* delivered, and the earlier calls for the same place that had already
\* delivered a snapshot when this call was made.
Call(id, http, got, after) == [id |-> id, http |-> http, got |-> got, after |-> after]

DeliveredBefore(id) ==
  {k \in 1..Len(calls) : calls[k].id = id /\ calls[k].got.kind = "data"}

InitWeather ==
  /\ platformId = "browser" /\ ForecastIdle /\ SinkIdle
  /\ WeatherIdle
  /\ calls = <<>>
  /\ InitNotStarted
  /\ currentZoomLevel = InitialZoom
  /\ FetchIdle
  /\ RecIdle

\* getWeatherForLocation(location).subscribe(...) with the entry cached:
\* of(cachedData) delivers at once.
CallCached(id) ==
  /\ Len(calls) < MaxCalls
  /\ CacheHas(id)
  /\ currentWeather' = weatherCache[id]
  /\ calls' = Append(calls, Call(id, FALSE, weatherCache[id], DeliveredBefore(id)))
  /\ UNCHANGED <<weatherCache, weatherRequests, currentZoomLevel, fetchVars, initVars, recVars, platformId, forecastVars, sinkVars, loads>>

\* getWeatherForLocation(location).subscribe(...) on a cache miss: one HTTP
\* GET is issued.
CallMiss(id) ==
  /\ Len(calls) < MaxCalls
  /\ ~CacheHas(id)
  /\ weatherRequests' = weatherRequests (+) SetToBag({Request(id, Len(calls) + 1)})
  /\ calls' = Append(calls, Call(id, TRUE, Pending, DeliveredBefore(id)))
  /\ UNCHANGED <<weatherCache, currentWeather, currentZoomLevel, fetchVars, initVars, recVars, platformId, forecastVars, sinkVars, loads>>

\* The HTTP GET of a call completes: map, tap / catchError, next.
CallResponse(req, data) ==
  /\ weatherCache' = CacheAfterResponse(req.id, data)
  /\ currentWeather' = SignalAfterResponse(data)
  /\ weatherRequests' = weatherRequests (-) SetToBag({req})
  /\ calls' = [calls EXCEPT ![req.sub].got = data]
  /\ UNCHANGED <<currentZoomLevel, fetchVars, initVars, recVars, platformId, forecastVars, sinkVars, loads>>

NextWeather ==
  \/ \E id \in PlaceIds : CallCached(id)
  \/ \E id \in PlaceIds : CallMiss(id)
  \/ \E req \in BagToSet(weatherRequests) : \E data \in Outcomes(req.id) :
       CallResponse(req, data)

SpecWeather == InitWeather /\ [][NextWeather]_vars

(***************************************************************************)
(* The map and the geodata service, as the reconciler sees them.           *)
(***************************************************************************)
\* The nodes of the map's area, in the order the service lists them: a
\* capital city and a town.
WorldNodes == <<NodeById(1), NodeById(4)>>

Lon(id) == ToLocation(NodeById(id)).longitude

\* The zoom levels the user switches between, and how many longitudes the
\* viewport spans at each.
MapZooms == {InitialZoom, CloseZoom}
ViewWidth(zoom) == IF zoom = InitialZoom THEN 3 ELSE 2

\* The area spans the longitudes of its nodes and one more, east of them.
MaxLon == Len(WorldNodes) + 1

\* The west edges the view can have at a zoom level.
Wests(zoom) == 1..(MaxLon - ViewWidth(zoom) + 1)

\* map.getBounds() as the event a listener makes of it, with its tag.
MapBounds(tag) == Event(mapWest, mapWest + ViewWidth(mapZoom) - 1, tag)

\* bounds.contains(marker.getLatLng()) for map.getBounds().
InMapBounds(marker) ==
  mapWest <= Lon(marker.id) /\ Lon(marker.id) <= mapWest + ViewWidth(mapZoom) - 1

\* Mutant of PlaceClasses: towns are asked for one zoom level later.
PlaceClassesTownsLater(zoom) ==
  IF zoom > 11 THEN {"city", "town", "village", "hamlet", "suburb", "island", "islet"}
  ELSE IF zoom > 9 THEN {"city", "town"}
  ELSE {"city"}

\* placeRegex: the place classes asked for at a zoom level.
PlaceClasses(zoom) ==
  IF zoom > 11 THEN {"city", "town", "village", "hamlet", "suburb", "island", "islet"}
  ELSE IF zoom > 8 THEN {"city", "town"}
  ELSE {"city"}

\* The Overpass service's answer to a query: the nodes of the asked classes
\* inside the bounding box.
OverpassAnswer(query) ==
  SelectSeqBy(WorldNodes,
    {n \in OverpassNodes : /\ n.place \in query.classes
                           /\ query.west <= Lon(n.id) /\ Lon(n.id) <= query.east})

\* A fetch in flight whose observer is subscribed: its bounding box and
\* its place classes.
Query(event, classes) ==
  [west |-> event.west, east |-> event.east, classes |-> classes]

\* fetchLocationsFromOverpass(bounds), subscribed: the place classes are
\* taken from the zoom level stored at that moment.
NewQuery(event, zoom) == Query(event, PlaceClasses(zoom))

\* Mutant of Unsubscribed: switchMap keeps the earlier inner subscriptions.
UnsubscribedKept(qs) == qs

\* Mutant of Unsubscribed: only a zoom-tagged event ends the query in hand.
UnsubscribedOnZoomOnly(qs) == IF pending.isZoomChange THEN EmptyBag ELSE qs

\* switchMap unsubscribes from the inner observable it holds: the answer
\* of that fetch, when it comes, reaches no observer and changes nothing,
\* so the fetch is no longer tracked.
Unsubscribed(qs) == EmptyBag

(***************************************************************************)
(* MarkerReconciler: markers, clear passes, addMarkersForLocations         *)
(***************************************************************************)
\* A rendered marker: its identity and the place it was created for.
Marker(h, id) == [h |-> h, id |-> id]

Handles(ms) == {ms[i].h : i \in 1..Len(ms)}

\* A new L.Marker: an object distinct from every marker rendered.
NewHandle(ms) == CHOOSE h \in 1..(Len(ms) + 1) : h \notin Handles(ms)

\* The three marker structures, with the weather gateway's state, as one
\* value for the loops below.
MarkerState ==
  [markers |-> markers, ids |-> markerLocationIds, toId |-> markerToLocationId,
   requests |-> weatherRequests, signal |-> currentWeather]

\* Mutant of WithMarker: the marker is rendered and not registered.
WithMarkerUnregistered(st, id) ==
  LET h == NewHandle(st.markers)
  IN  [st EXCEPT !.markers = Append(st.markers, Marker(h, id))]

\* createWeatherMarker and the registration that follows it (lines 857-865).
WithMarker(st, id) ==
  LET h == NewHandle(st.markers)
  IN  [st EXCEPT !.markers = Append(st.markers, Marker(h, id)),
                 !.ids = st.ids \cup {id},
                 !.toId = [x \in DOMAIN st.toId \cup {h} |->
                             IF x = h THEN id ELSE st.toId[x]]]

\* Mutant of AlreadyMarked: the live id set is not looked at.
AlreadyMarkedNever(st, id) == FALSE

\* this.markerLocationIds.has(location.id)
AlreadyMarked(st, id) == id \in st.ids

\* One round of the forEach of addMarkersForLocations: a place that has a
\* marker is skipped; a cached snapshot makes the marker at once; else a
\* weather request is issued.
AddMarkerFor(st, id) ==
  IF AlreadyMarked(st, id) THEN st
  ELSE IF CacheHas(id)
       THEN [WithMarker(st, id) EXCEPT !.signal = weatherCache[id]]
       ELSE [st EXCEPT !.requests = st.requests (+) SetToBag({Request(id, "marker")})]

RECURSIVE AddMarkersForLocations(_, _)
\* addMarkersForLocations(locations): the forEach, in order.
AddMarkersForLocations(st, locations) ==
  IF locations = <<>> THEN st
  ELSE AddMarkersForLocations(AddMarkerFor(st, Head(locations).id), Tail(locations))

\* The marker structures and the gateway take the values of st.
SetMarkerState(st) ==
  /\ markers' = st.markers
  /\ markerLocationIds' = st.ids
  /\ markerToLocationId' = st.toId
  /\ weatherRequests' = st.requests
  /\ currentWeather' = st.signal

\* Mutant of OutOfBounds: the containment test is inverted.
OutOfBoundsInverted(marker) == InMapBounds(marker)

\* !bounds.contains(marker.getLatLng())
OutOfBounds(marker) == ~InMapBounds(marker)

\* Mutant of RemoveOutOfBounds: the ids of the markers removed stay in the
\* id set.
RemoveOutOfBoundsKeepsIds(st) ==
  LET gone == {st.markers[i] : i \in {k \in 1..Len(st.markers) : OutOfBounds(st.markers[k])}}
      handlesGone == {m.h : m \in gone}
  IN  [st EXCEPT !.markers = SelectSeqBy(st.markers,
                               {st.markers[i] : i \in 1..Len(st.markers)} \ gone),
                 !.toId = [x \in DOMAIN st.toId \ handlesGone |-> st.toId[x]]]

\* clearMarkers(false): the markers out of the map's bounds are removed
\* from the array, the id set and the marker-to-id map; the others stay.
RemoveOutOfBounds(st) ==
  LET gone == {st.markers[i] : i \in {k \in 1..Len(st.markers) : OutOfBounds(st.markers[k])}}
      handlesGone == {m.h : m \in gone}
  IN  [st EXCEPT !.markers = SelectSeqBy(st.markers,
                               {st.markers[i] : i \in 1..Len(st.markers)} \ gone),
                 !.ids = st.ids \ {st.toId[h] : h \in handlesGone \cap DOMAIN st.toId},
                 !.toId = [x \in DOMAIN st.toId \ handlesGone |-> st.toId[x]]]

\* Mutant of RemoveAll: the id set and the marker-to-id map are not cleared.
RemoveAllKeepsIds(st) == [st EXCEPT !.markers = <<>>]

\* clearAllMarkersInternal()
RemoveAll(st) == [st EXCEPT !.markers = <<>>, !.ids = {}, !.toId = <<>>]

(***************************************************************************)
(* SpecFetch: one geodata response, processed at some zoom level.          *)
(***************************************************************************)
\* Every response: a list of distinct nodes, at most MaxElems long.
Responses ==
  { s \in UNION { [1..n -> OverpassNodes] : n \in 0..MaxElems } :
      \A i, j \in 1..Len(s) : i /= j => s[i].id /= s[j].id }

InitFetch ==
  /\ platformId = "browser" /\ ForecastIdle /\ SinkIdle
  /\ currentZoomLevel \in ZoomLevels
  /\ overpassElements \in Responses
  /\ allLocations = NotYet
  /\ WeatherIdle
  /\ calls = <<>>
  /\ InitNotStarted
  /\ RecIdle

\* The .then handler of the fetch: process and deliver the list.
FetchResponse ==
  /\ allLocations = NotYet
  /\ allLocations' = ProcessElements(overpassElements, currentZoomLevel)
  /\ UNCHANGED <<currentZoomLevel, overpassElements, weatherVars, calls, initVars, recVars,
                 platformId, forecastVars, sinkVars, loads>>

NextFetch == FetchResponse

SpecFetch == InitFetch /\ [][NextFetch]_vars

(***************************************************************************)
(* SpecForecast: one response of the forecast provider, mapped.            *)
(***************************************************************************)
\* A response is in hand: any number of daily entries up to MaxDays, and
\* any current weather code from -1 to MaxCode.
InitForecast ==
  /\ platformId = "browser"
  /\ currentZoomLevel = InitialZoom
  /\ FetchIdle /\ WeatherIdle /\ calls = <<>>
  /\ LoaderIdle /\ InitNotStarted /\ RecIdle
  /\ \E days \in 0..MaxDays : \E offset \in 0..MaxDays : \E code \in -1..MaxCode :
       openMeteoResponse = Response(days, offset, code)
  /\ weatherData = [mapped |-> FALSE, description |-> "", icon |-> "", forecast |-> <<>>]
  /\ SinkIdle

\* The map() of getOpenMeteoWeatherData: the description and the icon of
\* the current weather code, and the forecast.
GetOpenMeteoWeatherData ==
  /\ ~weatherData.mapped
  /\ LET description == GetWeatherDescription(openMeteoResponse.current_weather.weathercode)
     IN  weatherData' = [mapped |-> TRUE,
                         description |-> description,
                         icon |-> GetWeatherIcon(description),
                         forecast |-> MapOpenMeteoForecast(openMeteoResponse)]
  /\ UNCHANGED <<currentZoomLevel, fetchVars, weatherVars, calls, initVars, recVars,
                 platformId, openMeteoResponse, sinkVars, loads>>

SpecForecast == InitForecast /\ [][GetOpenMeteoWeatherData]_vars

(***************************************************************************)
(* SpecLoader: one initialization of the map by HomeComponent.             *)
(***************************************************************************)
InitLoader ==
  /\ platformId = "browser" /\ ForecastIdle /\ SinkIdle
  /\ LoaderIdle
  /\ windowL \in {NullHandle, ValidHandle, NoMapHandle}
  /\ ctrlPc = "initializeMap" /\ retryCount = 0 /\ caller = "none" /\ ctrlDelay = 0
  /\ hasMap = FALSE /\ isInitializing = FALSE /\ markersAddedDuringInit = FALSE
  /\ cycleOutcomes = <<>> /\ cycles = 0 /\ failedCycles = 0
  /\ WeatherIdle /\ calls = <<>>
  /\ currentZoomLevel = InitialZoom
  /\ FetchIdle
  /\ RecIdle

notLoader == <<currentZoomLevel, fetchVars, weatherVars, calls, recVars, platformId, forecastVars, sinkVars, loads>>

\* loadLeaflet() from its entry to its first await or return, entered with
\* the attempt counter at n: the counter is incremented; a first attempt
\* goes straight to the window.L check, a later one waits 500 ms * attempts.
\* The check returns window.L if it is valid and else starts the import.
WindowCheck ==
  IF HasMapConstructor(windowL)
  THEN /\ L' = windowL
       /\ leafletLoadPromise' = windowL
       /\ loaderPc' = "idle"
  ELSE /\ loaderPc' = "importing"
       /\ UNCHANGED <<L, leafletLoadPromise>>

\* return this.loadLeaflet() after a failed attempt: the recursive call
\* increments the counter and waits for its backoff.
RetryLoad ==
  /\ loadAttempts' = loadAttempts + 1
  /\ loaderPc' = "backoff"
  /\ UNCHANGED <<L, leafletLoadPromise, failedCycles>>

\* A failed attempt: retry if the bound allows, else return null.
AttemptFailed ==
  IF MayRetryLoad
  THEN RetryLoad
  ELSE /\ leafletLoadPromise' = NullHandle
       /\ loaderPc' = "idle"
       /\ failedCycles' = failedCycles + 1
       /\ UNCHANGED <<L, loadAttempts>>

\* initializeMap(retryCount), up to the await of ensureLeafletLoaded: the
\* container check and its own retry timer.
InitializeMap ==
  /\ ctrlPc = "initializeMap"
  /\ \E present \in BOOLEAN :
       IF present
       THEN /\ ctrlPc' = "ensureLeafletLoaded"
            /\ caller' = "initializeMap"
            /\ UNCHANGED <<retryCount, ctrlDelay>>
       ELSE IF MayRetryInit(retryCount)
            THEN /\ ctrlPc' = "containerWait"
                 /\ ctrlDelay' = ContainerRetryMs
                 /\ UNCHANGED <<retryCount, caller>>
            ELSE /\ ctrlPc' = "stopped"
                 /\ UNCHANGED <<retryCount, caller, ctrlDelay>>
  /\ UNCHANGED <<loaderVars, flagVars, loadHistory, notLoader>>

\* Mutant of ContainerTimer: the timer calls initializeMap(retryCount).
ContainerTimerSameCount ==
  /\ ctrlPc = "containerWait"
  /\ ctrlPc' = "initializeMap"
  /\ ctrlDelay' = 0
  /\ UNCHANGED <<retryCount, caller, loaderVars, flagVars, loadHistory, notLoader>>

\* The 500 ms timer of a missing container fires: initializeMap(retryCount + 1).
ContainerTimer ==
  /\ ctrlPc = "containerWait"
  /\ ctrlPc' = "initializeMap"
  /\ retryCount' = retryCount + 1
  /\ ctrlDelay' = 0
  /\ UNCHANGED <<caller, loaderVars, flagVars, loadHistory, notLoader>>

\* Mutant of GetLeaflet: nothing is remembered of an earlier load.
GetLeafletNotMemoized == NullHandle

\* getLeaflet(): the promise of the last load, else the handle held.
GetLeaflet == IF leafletLoadPromise /= "none" THEN leafletLoadPromise ELSE L

\* ensureLeafletLoaded() after its await of getLeaflet(): a valid handle is
\* returned; otherwise the handle and the counter are reset and a new load
\* cycle starts (loadLeaflet() runs to its first await).
EnsureLeafletLoaded ==
  /\ ctrlPc = "ensureLeafletLoaded"
  /\ leafletLoadPromise /= "pending"
  /\ IF HasMapConstructor(GetLeaflet)
     THEN /\ ctrlPc' = "loaded"
          /\ UNCHANGED <<loaderVars, loadHistory>>
     ELSE /\ ctrlPc' = "awaitLoad"
          /\ loadAttempts' = 1
          /\ cycles' = cycles + 1
          /\ cycleOutcomes' = <<>>
          /\ IF HasMapConstructor(windowL)
             THEN /\ L' = windowL
                  /\ leafletLoadPromise' = windowL
                  /\ loaderPc' = "idle"
             ELSE /\ L' = NullHandle
                  /\ leafletLoadPromise' = "pending"
                  /\ loaderPc' = "importing"
          /\ UNCHANGED <<windowL, failedCycles>>
  /\ UNCHANGED <<retryCount, caller, ctrlDelay, flagVars, notLoader>>

\* The backoff of a retry (500 ms * attempts) is over: the window.L check,
\* then the import.
BackoffDone ==
  /\ loaderPc = "backoff"
  /\ WindowCheck
  /\ UNCHANGED <<windowL, loadAttempts, ctrlVars, flagVars, loadHistory, notLoader>>

\* import('leaflet') settles: it throws, or resolves to a handle with or
\* without the Map constructor.
ImportSettles(outcome) ==
  /\ loaderPc = "importing"
  /\ cycleOutcomes' = Append(cycleOutcomes, outcome)
  /\ IF outcome = ValidHandle
     THEN /\ loaderPc' = "settling"
          /\ UNCHANGED <<L, leafletLoadPromise, loadAttempts, failedCycles>>
     ELSE AttemptFailed
  /\ UNCHANGED <<windowL, cycles, ctrlVars, flagVars, notLoader>>

\* The 200 ms delay after a good import is over: the Map constructor is
\* checked again; the handle is published to window.L and stored.
SettleDone(stillThere) ==
  /\ loaderPc = "settling"
  /\ IF stillThere
     THEN /\ windowL' = ValidHandle
          /\ L' = ValidHandle
          /\ leafletLoadPromise' = ValidHandle
          /\ loaderPc' = "idle"
          /\ UNCHANGED <<loadAttempts, failedCycles>>
     ELSE /\ AttemptFailed
          /\ UNCHANGED windowL
  /\ UNCHANGED <<cycleOutcomes, cycles, ctrlVars, flagVars, notLoader>>

\* ensureLeafletLoaded() returns what the load cycle returned.
LoadReturns ==
  /\ ctrlPc = "awaitLoad"
  /\ loaderPc = "idle"
  /\ ctrlPc' = "loaded"
  /\ UNCHANGED <<retryCount, caller, ctrlDelay, loaderVars, flagVars, loadHistory, notLoader>>

\* handleLeafletLoadError(retryCount): a timer of 1000 ms * (retryCount + 1)
\* for reloadLeaflet, or giving up.
HandleLeafletLoadError ==
  IF MayRetryInit(retryCount)
  THEN /\ ctrlPc' = "retryWait"
       /\ ctrlDelay' = InitRetryMs * (retryCount + 1)
  ELSE /\ ctrlPc' = "gaveUp"
       /\ ctrlDelay' = 0

\* What may happen once initMap() has a usable handle: the map is created,
\* the container element is missing, the Map constructor throws, or a
\* statement after this.map has been assigned throws.
InitMapOutcomes == {"created", "noContainer", "throws", "throwsLate"}

\* initMap() returns the map (and not undefined).
InitMapReturnsMap(outcome) == L /= NullHandle /\ HasMapConstructor(L) /\ outcome = "created"

\* initMap(): the flags are set; with a usable handle and a container,
\* window.L (if valid) replaces the handle held, an existing map is
\* removed and the new one is created, unless the constructor throws; a
\* later throw leaves the new map in this.map.
InitMap(outcome) ==
  /\ markersAddedDuringInit' = FALSE
  /\ isInitializing' = TRUE
  /\ IF L /= NullHandle /\ HasMapConstructor(L) /\ outcome /= "noContainer"
     THEN /\ L' = IF HasMapConstructor(windowL) THEN windowL ELSE L
          /\ hasMap' = (outcome /= "throws")
     ELSE UNCHANGED <<hasMap, L>>

\* initializeMap() after ensureLeafletLoaded: no usable handle or no map
\* leads to handleLeafletLoadError; else the map is ready (default view,
\* first markers, viewport listeners).
InitializeMapResumes ==
  /\ ctrlPc = "loaded"
  /\ caller = "initializeMap"
  /\ IF ~HasMapConstructor(GetLeaflet)
     THEN /\ HandleLeafletLoadError
          /\ UNCHANGED <<flagVars, L>>
     ELSE \E outcome \in InitMapOutcomes :
            /\ InitMap(outcome)
            /\ IF InitMapReturnsMap(outcome)
               THEN ctrlPc' = "mapCreated" /\ ctrlDelay' = 0
               ELSE HandleLeafletLoadError
  /\ UNCHANGED <<retryCount, caller, windowL, leafletLoadPromise, loadAttempts,
                 loaderPc, loadHistory, notLoader>>

\* The retry timer fires: reloadLeaflet('map') up to its 500 ms wait. The
\* flags are reset and the map is removed.
RetryTimer ==
  /\ ctrlPc = "retryWait"
  /\ markersAddedDuringInit' = FALSE
  /\ isInitializing' = TRUE
  /\ hasMap' = FALSE
  /\ ctrlPc' = "reloadWait"
  /\ ctrlDelay' = ReloadWaitMs
  /\ UNCHANGED <<retryCount, caller, loaderVars, loadHistory, notLoader>>

\* reloadLeaflet(): its wait is over, it calls ensureLeafletLoaded().
ReloadWaitDone ==
  /\ ctrlPc = "reloadWait"
  /\ ctrlPc' = "ensureLeafletLoaded"
  /\ caller' = "reloadLeaflet"
  /\ ctrlDelay' = 0
  /\ UNCHANGED <<retryCount, loaderVars, flagVars, loadHistory, notLoader>>

\* reloadLeaflet() after ensureLeafletLoaded: initMap() on a usable handle;
\* then, whatever happened, .then(() => initializeMap(retryCount + 1)).
ReloadLeafletResumes ==
  /\ ctrlPc = "loaded"
  /\ caller = "reloadLeaflet"
  /\ IF HasMapConstructor(GetLeaflet)
     THEN \E outcome \in InitMapOutcomes : InitMap(outcome)
     ELSE UNCHANGED <<flagVars, L>>
  /\ ctrlPc' = "initializeMap"
  /\ retryCount' = retryCount + 1
  /\ UNCHANGED <<caller, ctrlDelay, windowL, leafletLoadPromise, loadAttempts,
                 loaderPc, loadHistory, notLoader>>

NextLoader ==
  \/ InitializeMap
  \/ ContainerTimer
  \/ EnsureLeafletLoaded
  \/ BackoffDone
  \/ \E outcome \in ImportOutcomes : ImportSettles(outcome)
  \/ \E stillThere \in BOOLEAN : SettleDone(stillThere)
  \/ LoadReturns
  \/ InitializeMapResumes
  \/ RetryTimer
  \/ ReloadWaitDone
  \/ ReloadLeafletResumes

SpecLoader == InitLoader /\ [][NextLoader]_vars


(***************************************************************************)
(* Spec: the map once created. Viewport notifications, the debounce        *)
(* pipeline, geodata queries, weather requests and markers.                *)
(***************************************************************************)
\* The state in which initMap() has returned the map to initializeMap(0)
\* after a first load cycle whose first import succeeded.
Init ==
  /\ platformId = "browser" /\ ForecastIdle /\ SinkIdle
  /\ L = ValidHandle /\ windowL = ValidHandle /\ leafletLoadPromise = ValidHandle
  /\ loadAttempts = 1 /\ loaderPc = "idle" /\ loads = <<>>
  /\ ctrlPc = "mapCreated" /\ retryCount = 0 /\ caller = "initializeMap" /\ ctrlDelay = 0
  /\ hasMap = TRUE /\ isInitializing = TRUE /\ markersAddedDuringInit = FALSE
  /\ cycleOutcomes = <<ValidHandle>> /\ cycles = 1 /\ failedCycles = 0
  /\ WeatherIdle /\ calls = <<>>
  /\ currentZoomLevel = InitialZoom
  /\ FetchIdle
  /\ RecIdle

\* Held by every step of this specification.
notRec == <<fetchVars, calls, loaderVars, retryCount, caller, ctrlDelay, hasMap,
            loadHistory, platformId, forecastVars, sinkVars, loads>>

\* The length of one step of the clock.
TickMs == DEBOUNCE_MS \div 2

\* The debounce timer, or the timer of the initialization phase, has run out.
EmitDue == pending /= NoEvent /\ timer = 0
InitTimerDue == initTimer.armed /\ initTimer.left = 0

\* The page is idle: the listeners are installed, no notification is being
\* dispatched, and no timer that has run out waits for its callback.
Listening == ctrlPc = "listening" /\ notifications = <<>>
Quiet == Listening /\ ~EmitDue /\ ~InitTimerDue

\* mapMoveSubject.next(event): with the pipeline subscribed, debounceTime
\* holds the event in place of the one it held and restarts its timer; an errored pipeline has no
\* observer left. History: the event, and whether it starts a burst.
RawEvent(event) ==
  /\ IF pipelineAlive
     THEN pending' = event /\ timer' = DEBOUNCE_MS
     ELSE UNCHANGED <<pending, timer>>
  /\ lastRaw' = event
  /\ burstEmits' = IF sinceRaw >= DEBOUNCE_MS THEN 0 ELSE burstEmits
  /\ sinceRaw' = 0

\* addWeatherMarkers(), called by initializeMap() on the new map. The
\* guard flag is set, the 1000 ms timer is started, every marker is
\* cleared, and getLocationsByMapBounds() pushes the zoom-tagged bounds into
\* the pipeline; its own fetch is skipped while both flags are set.
AddWeatherMarkers ==
  /\ ctrlPc = "mapCreated"
  /\ ~markersAddedDuringInit
  /\ markersAddedDuringInit' = TRUE
  /\ initTimer' = Timer(TRUE, InitPhaseMs)
  /\ currentZoomLevel' = mapZoom
  /\ SetMarkerState(RemoveAll(MarkerState))
  /\ RawEvent(MapBounds(TRUE))
  /\ queries' = IF isInitializing
                THEN queries
                ELSE queries (+) SetToBag({NewQuery(MapBounds(TRUE), mapZoom)})
  /\ ctrlPc' = "markersRequested"
  /\ UNCHANGED <<isInitializing, weatherCache, mapVars, pipelineAlive,
                 emittedLast, lastGesture, lastEvent, lastResult, notRec>>

\* Mutant of MarkersAlreadyAdded: the guard flag is not looked at.
MarkersAlreadyAddedIgnored == FALSE

\* if (this.markersAddedDuringInit) return;
MarkersAlreadyAdded == markersAddedDuringInit

\* addWeatherMarkers() called once more while a guard flag is set: it
\* returns at the flag; past the flag it would set it, restart the 1000 ms
\* timer, clear every marker and push the zoom-tagged bounds, with its own
\* fetch skipped while both flags are set. History: the call.
AddWeatherMarkersAgain ==
  /\ Quiet
  /\ isInitializing \/ markersAddedDuringInit
  /\ lastGesture' = "addWeatherMarkers"
  /\ IF MarkersAlreadyAdded
     THEN UNCHANGED <<markersAddedDuringInit, initTimer, currentZoomLevel, weatherRequests,
                      currentWeather, markerVars, pending, timer, lastRaw, sinceRaw,
                      burstEmits, queries>>
     ELSE /\ markersAddedDuringInit' = TRUE
          /\ initTimer' = Timer(TRUE, InitPhaseMs)
          /\ currentZoomLevel' = mapZoom
          /\ SetMarkerState(RemoveAll(MarkerState))
          /\ RawEvent(MapBounds(TRUE))
          /\ queries' = IF isInitializing
                        THEN queries
                        ELSE queries (+) SetToBag({NewQuery(MapBounds(TRUE), mapZoom)})
  /\ UNCHANGED <<isInitializing, weatherCache, ctrlPc, mapVars, pipelineAlive,
                 emittedLast, lastEvent, lastResult, notRec>>

\* updateMarkersOnMapChange(): the zoomend and moveend listeners are
\* installed (currentZoomLevel is set already).
UpdateMarkersOnMapChange ==
  /\ ctrlPc = "markersRequested"
  /\ ctrlPc' = "listening"
  /\ UNCHANGED <<currentZoomLevel, weatherVars, flagVars, recVars, notRec>>

\* The orders in which the map library may notify the two listeners of one
\* zoom. The listeners are registered independently; the moveend listener
\* is written for a moveend that finds the zoom level changed.
ZoomNotifications == {<<"zoomend", "moveend">>, <<"moveend", "zoomend">>}

\* The user zooms: the map takes the new zoom and view, and the library
\* notifies zoomend and moveend.
UserZoom(zoom, west, order) ==
  /\ Quiet
  /\ zoom /= mapZoom
  /\ mapZoom' = zoom
  /\ mapWest' = west
  /\ notifications' = order
  /\ lastGesture' = Head(order)
  /\ UNCHANGED <<currentZoomLevel, weatherVars, flagVars, ctrlPc, debounceVars,
                 queries, markerVars, initTimer, lastRaw, sinceRaw, burstEmits,
                 emittedLast, lastEvent, lastResult, notRec>>

\* The user drags the map: Leaflet fires moveend.
UserPan(west) ==
  /\ Quiet
  /\ west /= mapWest
  /\ mapWest' = west
  /\ notifications' = <<"moveend">>
  /\ lastGesture' = "pan"
  /\ UNCHANGED <<currentZoomLevel, weatherVars, flagVars, ctrlPc, mapZoom,
                 debounceVars, queries, markerVars, initTimer, lastRaw, sinceRaw,
                 burstEmits, emittedLast, lastEvent, lastResult, notRec>>

\* The zoomend listener: the zoom level is stored and the bounds are pushed
\* into the pipeline tagged as a zoom.
ZoomEnd ==
  /\ ctrlPc = "listening"
  /\ notifications /= <<>> /\ Head(notifications) = "zoomend"
  /\ notifications' = Tail(notifications)
  /\ currentZoomLevel' = mapZoom
  /\ RawEvent(MapBounds(TRUE))
  /\ UNCHANGED <<weatherVars, flagVars, ctrlPc, mapZoom, mapWest, pipelineAlive,
                 queries, markerVars, initTimer, emittedLast, lastGesture,
                 lastEvent, lastResult, notRec>>

\* The moveend listener: if the map's zoom differs from the stored level
\* the level is stored and nothing else happens; else the bounds are
\* pushed into the pipeline tagged as a pan.
MoveEnd ==
  /\ ctrlPc = "listening"
  /\ notifications /= <<>> /\ Head(notifications) = "moveend"
  /\ notifications' = Tail(notifications)
  /\ IF mapZoom /= currentZoomLevel
     THEN /\ currentZoomLevel' = mapZoom
          /\ UNCHANGED <<pending, timer, lastRaw, sinceRaw, burstEmits>>
     ELSE /\ RawEvent(MapBounds(FALSE))
          /\ UNCHANGED currentZoomLevel
  /\ UNCHANGED <<weatherVars, flagVars, ctrlPc, mapZoom, mapWest, pipelineAlive,
                 queries, markerVars, initTimer, emittedLast, lastGesture,
                 lastEvent, lastResult, notRec>>

\* Time passes, by one step of the clock, while some timer runs.
Tick ==
  /\ Quiet
  /\ pending /= NoEvent \/ initTimer.armed \/ sinceRaw < DEBOUNCE_MS
  /\ timer' = IF pending /= NoEvent THEN timer - TickMs ELSE timer
  /\ initTimer' = IF initTimer.armed
                  THEN Timer(TRUE, initTimer.left - TickMs) ELSE initTimer
  /\ sinceRaw' = IF sinceRaw < DEBOUNCE_MS THEN sinceRaw + TickMs ELSE sinceRaw
  /\ UNCHANGED <<currentZoomLevel, weatherVars, flagVars, ctrlPc, mapVars, pending,
                 pipelineAlive, queries, markerVars, lastRaw, burstEmits,
                 emittedLast, lastGesture, lastEvent, lastResult, notRec>>

\* The 1000 ms timer of addWeatherMarkers fires.
InitTimerFires ==
  /\ Listening
  /\ InitTimerDue
  /\ isInitializing' = FALSE
  /\ initTimer' = NoTimer
  /\ UNCHANGED <<currentZoomLevel, weatherVars, markersAddedDuringInit, ctrlPc,
                 mapVars, debounceVars, queries, markerVars, recHistory, notRec>>

\* The debounce timer fires and switchMap takes the event: the query in
\* hand is unsubscribed; a zoom-tagged event clears every marker and
\* resets the flags (clearMarkers(true)), a pan-tagged one removes the
\* markers out of the map's bounds (clearMarkers(false)); then the places
\* of the event's bounds are asked for. History: what the pass did.
Emit ==
  /\ Listening
  /\ EmitDue
  /\ pending' = NoEvent
  /\ emittedLast' = (pending = lastRaw)
  /\ burstEmits' = burstEmits + 1
  /\ queries' = Unsubscribed(queries) (+) SetToBag({NewQuery(pending, currentZoomLevel)})
  /\ lastResult' = Result("pending", {})
  /\ IF pending.isZoomChange
     THEN /\ SetMarkerState(RemoveAll(MarkerState))
          /\ markersAddedDuringInit' = FALSE
          /\ isInitializing' = FALSE
          /\ lastEvent' = Pass("zoom", FALSE, markers /= <<>>)
     ELSE /\ SetMarkerState(RemoveOutOfBounds(MarkerState))
          /\ UNCHANGED <<markersAddedDuringInit, isInitializing>>
          /\ lastEvent' = Pass("pan",
                            \E i \in 1..Len(markers) : InMapBounds(markers[i]),
                            \E i \in 1..Len(markers) : ~InMapBounds(markers[i]))
  /\ UNCHANGED <<currentZoomLevel, weatherCache, ctrlPc, mapVars, timer,
                 pipelineAlive, initTimer, lastRaw, sinceRaw, lastGesture, notRec>>

\* The Overpass service answers a subscribed query. The elements are
\* processed with the zoom level stored at that moment and the places are
\* handed to addMarkersForLocations.
GeodataResponse(query) ==
  /\ Quiet
  /\ LET locations == ProcessElements(OverpassAnswer(query), currentZoomLevel)
         st == AddMarkersForLocations(MarkerState, locations)
     IN  /\ Len(st.markers) <= MaxMarkers
         /\ BagCardinality(st.requests) <= MaxRequests
         /\ SetMarkerState(st)
         /\ lastResult' = Result("done", {locations[i].id : i \in 1..Len(locations)})
  /\ queries' = queries (-) SetToBag({query})
  /\ UNCHANGED <<currentZoomLevel, weatherCache, flagVars, ctrlPc, mapVars,
                 debounceVars, initTimer, lastRaw, sinceRaw, burstEmits,
                 emittedLast, lastGesture, lastEvent, notRec>>

\* The request of a subscribed query fails: observer.error. The error goes
\* through switchMap to the subscriber of the pipeline, which ends the
\* subscription, debounceTime included.
GeodataFailure(query) ==
  /\ Quiet
  /\ queries' = queries (-) SetToBag({query})
  /\ pipelineAlive' = FALSE
  /\ pending' = NoEvent
  /\ timer' = 0
  /\ lastResult' = FailedResult
  /\ UNCHANGED <<currentZoomLevel, weatherVars, flagVars, ctrlPc, mapVars,
                 markerVars, initTimer, lastRaw, sinceRaw, burstEmits,
                 emittedLast, lastGesture, lastEvent, notRec>>

\* Mutant of HasSnapshot: the null test is dropped.
HasSnapshotAlways(data) == TRUE

\* if (!weatherData) return;
HasSnapshot(data) == data /= Null

\* The forecast provider answers a request of addMarkersForLocations: the
\* tap() stores a snapshot; the subscriber makes the marker for a snapshot
\* and registers it, and returns on null.
WeatherResponse(req, data) ==
  /\ Quiet
  /\ weatherCache' = CacheAfterResponse(req.id, data)
  /\ LET st == [MarkerState EXCEPT !.requests = weatherRequests (-) SetToBag({req}),
                                   !.signal = SignalAfterResponse(data)]
     IN  IF HasSnapshot(data)
         THEN /\ Len(markers) < MaxMarkers
              /\ SetMarkerState(WithMarker(st, req.id))
         ELSE SetMarkerState(st)
  /\ UNCHANGED <<currentZoomLevel, flagVars, ctrlPc, mapVars, debounceVars, queries,
                 initTimer, recHistory, notRec>>

Next ==
  \/ AddWeatherMarkers
  \/ AddWeatherMarkersAgain
  \/ UpdateMarkersOnMapChange
  \/ \E zoom \in MapZooms : \E west \in Wests(zoom) : \E order \in ZoomNotifications :
       UserZoom(zoom, west, order)
  \/ \E west \in Wests(mapZoom) : UserPan(west)
  \/ ZoomEnd
  \/ MoveEnd
  \/ Tick
  \/ InitTimerFires
  \/ Emit
  \/ \E query \in BagToSet(queries) : GeodataResponse(query)
  \/ \E query \in BagToSet(queries) : GeodataFailure(query)
  \/ \E req \in BagToSet(weatherRequests) : \E data \in {Forecast(req.id), Null} :
       WeatherResponse(req, data)

Spec == Init /\ [][Next]_vars

(***************************************************************************)
(* SpecBounds: a consumer of MapService asks for the places of bounds of   *)
(* its choice, getLocationsByMapBounds(bounds), and subscribes to the      *)
(* answer, as addWeatherMarkers does.                                      *)
(***************************************************************************)

\* getLocationsByMapBounds(bounds): the bounds are pushed into the
\* pipeline; while both flags are set of([]) is returned, else the
\* observable of fetchLocationsFromOverpass(bounds), whose request leaves
\* when the consumer subscribes. The answer goes to the consumer's own
\* subscriber and changes nothing in the service. History: the call, and
\* whether it made its own request.
GetLocationsByMapBounds(west, isZoomChange) ==
  /\ Quiet
  /\ RawEvent(Event(west, west + ViewWidth(mapZoom) - 1, isZoomChange))
  /\ lastGesture' = IF isInitializing /\ markersAddedDuringInit
                    THEN "getLocationsByMapBounds"
                    ELSE "getLocationsByMapBounds+fetch"
  /\ UNCHANGED <<currentZoomLevel, weatherVars, flagVars, ctrlPc, mapVars, pipelineAlive,
                 queries, markerVars, initTimer, emittedLast, lastEvent, lastResult,
                 notRec>>

NextBounds ==
  \/ AddWeatherMarkers
  \/ UpdateMarkersOnMapChange
  \/ \E west \in Wests(mapZoom) : \E isZoomChange \in BOOLEAN :
       GetLocationsByMapBounds(west, isZoomChange)
  \/ Tick
  \/ InitTimerFires
  \/ Emit
  \/ \E query \in BagToSet(queries) : GeodataResponse(query)
  \/ \E query \in BagToSet(queries) : GeodataFailure(query)
  \/ \E req \in BagToSet(weatherRequests) : \E data \in {Forecast(req.id), Null} :
       WeatherResponse(req, data)

SpecBounds == Init /\ [][NextBounds]_vars

\* C31 as stated: a request made outside the initialization phase leads to
\* at most one geodata query for its bounds, that is, the pipeline issues
\* no query for the bounds of a request that has made its own.
C31_OneQueryPerRequest ==
  [][~(/\ lastGesture = "getLocationsByMapBounds+fetch"
       /\ EmitDue /\ pending = lastRaw /\ pending' = NoEvent
       /\ NewQuery(lastRaw, currentZoomLevel) \in BagToSet(queries'))]_vars

(***************************************************************************)
(* SpecSink: the layers that hold the markers of one map. initMap has      *)
(* made the layer group and, if the library has the clustering plugin,     *)
(* the cluster group; markers are made and cleared as the map moves.       *)
(***************************************************************************)
InitSink ==
  /\ platformId = "browser" /\ ForecastIdle
  /\ L = ValidHandle /\ windowL = ValidHandle /\ leafletLoadPromise = ValidHandle
  /\ loadAttempts = 1 /\ loaderPc = "idle" /\ loads = <<>>
  /\ ctrlPc = "listening" /\ retryCount = 0 /\ caller = "initializeMap" /\ ctrlDelay = 0
  /\ hasMap = TRUE /\ isInitializing = TRUE /\ markersAddedDuringInit = TRUE
  /\ cycleOutcomes = <<ValidHandle>> /\ cycles = 1 /\ failedCycles = 0
  /\ WeatherIdle /\ calls = <<>> /\ FetchIdle
  /\ mapZoom \in MapZooms /\ currentZoomLevel = mapZoom
  /\ mapWest = 1 /\ notifications = <<>>
  /\ pending = NoEvent /\ timer = 0 /\ pipelineAlive = TRUE /\ queries = EmptyBag
  /\ markers = <<>> /\ markerLocationIds = {} /\ markerToLocationId = <<>>
  /\ initTimer = NoTimer
  /\ lastRaw = NoEvent /\ sinceRaw = DEBOUNCE_MS /\ burstEmits = 0
  /\ emittedLast = FALSE /\ lastGesture = "none"
  /\ lastEvent = NoPass /\ lastResult = NoResult
  /\ \E available \in BOOLEAN : markerClusterGroup = [set |-> available, layers |-> {}]
  /\ markersLayer = {}

\* Held by every step of this specification.
notSink == <<currentZoomLevel, fetchVars, weatherCache, calls, loaderVars, ctrlVars,
            hasMap, loadHistory, mapZoom, notifications, debounceVars, queries,
            initTimer, recHistory, platformId, forecastVars, loads>>

\* The user drags the map.
MapMoves(west) ==
  /\ west /= mapWest
  /\ mapWest' = west
  /\ UNCHANGED <<weatherRequests, currentWeather, isInitializing, markersAddedDuringInit,
                 markerVars, sinkVars, notSink>>

\* Mutant of RemoveLayer: the markers are taken from the layer group only.
RemoveLayerFlat(gone) ==
  /\ markersLayer' = markersLayer \ gone
  /\ UNCHANGED markerClusterGroup

\* if (this.markerClusterGroup) this.markerClusterGroup.removeLayer(marker)
\* else if (this.markersLayer) this.markersLayer.removeLayer(marker),
\* for each marker that leaves.
RemoveLayer(gone) ==
  IF markerClusterGroup.set
  THEN /\ markerClusterGroup' = [markerClusterGroup EXCEPT !.layers = @ \ gone]
       /\ UNCHANGED markersLayer
  ELSE /\ markersLayer' = markersLayer \ gone
       /\ UNCHANGED markerClusterGroup

\* createWeatherMarker(weatherData), with the registration by its caller:
\* the marker goes to the cluster group if there is one, else to the layer
\* group, and then into the array.
CreateWeatherMarker(id) ==
  /\ Len(markers) < MaxMarkers
  /\ LET marker == NewHandle(markers)
     IN  IF markerClusterGroup.set
         THEN /\ markerClusterGroup' = [markerClusterGroup EXCEPT !.layers = @ \cup {marker}]
              /\ UNCHANGED markersLayer
         ELSE /\ markersLayer' = markersLayer \cup {marker}
              /\ UNCHANGED markerClusterGroup
  /\ SetMarkerState(WithMarker(MarkerState, id))
  /\ UNCHANGED <<mapWest, isInitializing, markersAddedDuringInit, notSink>>

\* clearMarkers(clearAll): all markers and both layers are emptied and
\* the flags reset, or the markers out of the map's bounds are taken from
\* their layer and the structures.
ClearMarkers(clearAll) ==
  /\ IF clearAll
     THEN /\ SetMarkerState(RemoveAll(MarkerState))
          /\ markersLayer' = {}
          /\ markerClusterGroup' = [markerClusterGroup EXCEPT !.layers = {}]
          /\ markersAddedDuringInit' = FALSE
          /\ isInitializing' = FALSE
     ELSE /\ SetMarkerState(RemoveOutOfBounds(MarkerState))
          /\ RemoveLayer({markers[i].h : i \in {k \in 1..Len(markers) : OutOfBounds(markers[k])}})
          /\ UNCHANGED <<isInitializing, markersAddedDuringInit>>
  /\ UNCHANGED <<mapWest, notSink>>

NextSink ==
  \/ \E west \in Wests(mapZoom) : MapMoves(west)
  \/ \E id \in PlaceIds : CreateWeatherMarker(id)
  \/ \E clearAll \in BOOLEAN : ClearMarkers(clearAll)

SpecSink == InitSink /\ [][NextSink]_vars

\* C34: every marker rendered is in exactly one of the two layers, the
\* cluster group if initMap has made one and the layer group if not, and
\* neither layer holds a marker that has been removed.
C34_OneSinkPerMarker ==
  /\ \A h \in Handles(markers) :
       /\ (h \in markerClusterGroup.layers) /= (h \in markersLayer)
       /\ (h \in markerClusterGroup.layers) = markerClusterGroup.set
  /\ markerClusterGroup.layers \cup markersLayer \subseteq Handles(markers)

\* With a cluster group: a pan pass has left one of two markers.
C34_Witness ==
  /\ markerClusterGroup.set
  /\ Len(markers) = 1 /\ InMapBounds(markers[1]) /\ markers[1].h = 2
  /\ markerClusterGroup.layers = {2}

(***************************************************************************)
(* Properties of the map once created (Spec)                               *)
(***************************************************************************)
\* C1: in every reachable state, no two markers of MapService.markers are
\* for the same place id.
C1_AtMostOneMarkerPerPlace ==
  \A i, j \in 1..Len(markers) : markers[i].id = markers[j].id => i = j

\* Nothing of the reconciliation is outstanding: no event waits in the
\* debouncer, no geodata query and no weather request is in flight.
Settled ==
  /\ Quiet
  /\ pending = NoEvent
  /\ queries = EmptyBag
  /\ weatherRequests = EmptyBag

C3_MoveAfterZoomSuppressed ==
  (notifications = <<>> /\ lastGesture = "zoomend" /\ burstEmits = 1)
    => lastEvent.tag = "zoom"

\* The step in which switchMap takes a pan-tagged event.
PanPass == EmitDue /\ ~pending.isZoomChange /\ pending' = NoEvent

\* C4: in the pass of a pan-tagged event, every marker inside the map's
\* bounds stays in markers as the same object and keeps its place in the
\* order, its id stays in markerLocationIds and its entry in
\* markerToLocationId; every marker that is gone lay outside the bounds,
\* and no marker is added.
C4_PanPassKeepsInBounds ==
  [][PanPass =>
       /\ \A i \in 1..Len(markers) :
            IF InMapBounds(markers[i])
            THEN /\ \E j \in 1..Len(markers') : markers'[j] = markers[i]
                 /\ markers[i].id \in markerLocationIds'
                 /\ markers[i].h \in DOMAIN markerToLocationId'
                 /\ markerToLocationId'[markers[i].h] = markers[i].id
            ELSE \A j \in 1..Len(markers') : markers'[j] /= markers[i]
       /\ \A j \in 1..Len(markers') : \E i \in 1..Len(markers) : markers[i] = markers'[j]
       /\ \A j, k \in 1..Len(markers') :
            j < k => \E i, l \in 1..Len(markers) :
                       i < l /\ markers[i] = markers'[j] /\ markers[l] = markers'[k]
  ]_vars

\* A pan pass has just kept a marker inside the bounds and removed one
\* outside them.
C4_Witness ==
  /\ lastEvent = Pass("pan", TRUE, TRUE)
  /\ lastResult.state = "pending"
  /\ Len(markers) >= 1

\* C10: a burst of raw events yields exactly one emitted event, the last
\* raw event of the burst: never more than one emission per burst, the one
\* emission is the last raw event, none comes while the quiet period runs,
\* and one has come when the quiet period is over.
C10_BurstYieldsLastEvent ==
  /\ burstEmits <= 1
  /\ burstEmits = 1 => (emittedLast /\ sinceRaw >= DEBOUNCE_MS)
  /\ (Quiet /\ lastRaw /= NoEvent /\ sinceRaw >= DEBOUNCE_MS) => burstEmits = 1

\* The step in which a weather response makes a marker: a request leaves
\* the bag and markers grows by one.
ResponseMakesMarker ==
  /\ Len(markers') = Len(markers) + 1
  /\ BagCardinality(weatherRequests') < BagCardinality(weatherRequests)

\* C11: while the query of the newest emitted event is in flight, a weather
\* response makes a marker only for a place inside that event's bounds.
C11_LateResponseDiscarded ==
  [][ResponseMakesMarker =>
       \A q \in BagToSet(queries) :
         /\ q.west <= Lon(markers'[Len(markers')].id)
         /\ Lon(markers'[Len(markers')].id) <= q.east
  ]_vars

\* C12: a failed geodata query stops no later event: when the last query
\* processed has failed and the quiet period after the last raw event is
\* over, that raw event's burst has been emitted (so the failed query is
\* the one of that emission, and no event given since waits unprocessed).
C12_LaterEventsProcessed ==
  (Quiet /\ lastResult.state = "failed" /\ lastRaw /= NoEvent /\ sinceRaw >= DEBOUNCE_MS)
    => burstEmits = 1

\* The step in which a geodata request fails: the query leaves the bag
\* and the pipeline's subscription ends.
QueryFails == pipelineAlive /\ ~pipelineAlive' /\ queries' /= queries

\* C13: a failed geodata request gives its subscriber an error and no
\* place list, which differs from the empty list of an empty area, and
\* nothing is added for it: markers, ids and weather requests stay as they
\* are.
C13_FailedQueryDeliversNoList ==
  [][QueryFails =>
       /\ lastResult'.state = "failed"
       /\ lastResult' /= Result("done", {})
       /\ markers' = markers
       /\ markerLocationIds' = markerLocationIds
       /\ markerToLocationId' = markerToLocationId
       /\ weatherRequests' = weatherRequests
       /\ weatherCache' = weatherCache
  ]_vars

\* A geodata request has failed while a weather request was in flight.
C13_Witness ==
  /\ lastResult.state = "failed"
  /\ ~pipelineAlive
  /\ weatherRequests /= EmptyBag

\* The step in which a weather response reaches the subscriber of
\* addMarkersForLocations.
ResponseArrives == BagCardinality(weatherRequests') < BagCardinality(weatherRequests)

\* C15: a weather response, null or not, takes only its own request out of
\* flight, so the other places of the batch are still served, and removes no
\* marker; if it makes a marker, the snapshot was not null (it is in the
\* cache) and the marker is registered in the id set and the marker-to-id
\* map; otherwise the marker structures are as before.
C15_NullFetchDoesNotAbortBatch ==
  [][ResponseArrives =>
       /\ \E req \in BagToSet(weatherRequests) :
            weatherRequests' = weatherRequests (-) SetToBag({req})
       /\ IF Len(markers') > Len(markers)
          THEN LET m == markers'[Len(markers')]
               IN  /\ markers' = Append(markers, m)
                   /\ weatherCache'[m.id] \in Snapshots(m.id) \cup {Forecast(m.id)}
                   /\ m.id \in markerLocationIds'
                   /\ m.h \in DOMAIN markerToLocationId'
                   /\ markerToLocationId'[m.h] = m.id
          ELSE /\ markers' = markers
               /\ markerLocationIds' = markerLocationIds
               /\ markerToLocationId' = markerToLocationId
               /\ weatherCache' = weatherCache
  ]_vars

\* Of a batch of two places one fetch has failed and the other place has
\* its marker.
C15_Witness ==
  /\ lastResult.state = "done" /\ Cardinality(lastResult.ids) = 2
  /\ weatherRequests = EmptyBag
  /\ \E id \in lastResult.ids :
       /\ ~CacheHas(id)
       /\ \A i \in 1..Len(markers) : markers[i].id /= id
  /\ \E i \in 1..Len(markers) :
       markers[i].id \in lastResult.ids /\ markers[i].id \in markerLocationIds

\* C21: the first addWeatherMarkers() sends no query of its own, it only
\* hands the zoom-tagged initial bounds to the debounce pipeline; every
\* query is sent by a debounced emission and at most one is in flight; and
\* a further addWeatherMarkers() while the guard flag is set sends no
\* query, clears no marker and restarts no timer.
C21_InitialPopulationFiresOnce ==
  [][/\ (ctrlPc = "mapCreated" /\ ctrlPc' = "markersRequested") =>
          (queries' = queries /\ pending' = MapBounds(TRUE) /\ timer' = DEBOUNCE_MS)
     /\ (queries' /= queries /\ queries' /= EmptyBag) =>
          (EmitDue /\ pending' = NoEvent /\ BagCardinality(queries') = 1)
     /\ (lastGesture' = "addWeatherMarkers" /\ lastGesture' /= lastGesture
           /\ markersAddedDuringInit) =>
          /\ queries' = queries
          /\ markers' = markers /\ markerLocationIds' = markerLocationIds
          /\ markerToLocationId' = markerToLocationId
          /\ pending' = pending /\ timer' = timer /\ initTimer' = initTimer
          /\ markersAddedDuringInit' /\ isInitializing' = isInitializing]_vars

C21_Witness ==
  /\ lastGesture = "addWeatherMarkers"
  /\ lastRaw = Event(1, ViewWidth(InitialZoom), TRUE) /\ burstEmits = 1
  /\ BagCardinality(queries) = 1
  /\ ~markersAddedDuringInit

\* C22: the pipeline takes the events one at a time in the order in which
\* they were pushed: the step that takes an event is the debounced emission
\* of the last event pushed, it runs that event's clear pass and starts
\* that event's query, and the query of the event before is no longer
\* subscribed, so no step of an earlier pass falls between the two.
C22_PassesInEmissionOrder ==
  [][(pending /= NoEvent /\ pending' = NoEvent /\ pipelineAlive') =>
       /\ EmitDue /\ pending = lastRaw
       /\ burstEmits' = burstEmits + 1
       /\ queries' = SetToBag({NewQuery(pending, currentZoomLevel)})
       /\ lastEvent'.tag = (IF pending.isZoomChange THEN "zoom" ELSE "pan")
       /\ IF pending.isZoomChange
          THEN markers' = <<>>
          ELSE \A i \in 1..Len(markers') : InMapBounds(markers'[i])]_vars

C22_Witness ==
  /\ lastEvent.tag = "pan" /\ lastEvent.keptSome
  /\ BagCardinality(queries) = 1 /\ lastResult.state = "pending"

\* C23: the place classes of a query are those of the zoom level stored
\* when the query is built: above 11 the broad set (city, town, village,
\* hamlet, suburb, island with islet), above 8 city and town, else city
\* only; so 8 gives city, 9 and 11 give city and town, 12 the broad set.
C23_ClassesFollowZoom ==
  [][LET broad == {"city", "town", "village", "hamlet", "suburb", "island", "islet"}
         tiers(z) == IF z > 11 THEN broad ELSE IF z > 8 THEN {"city", "town"} ELSE {"city"}
     IN  /\ \A q \in BagToSet(queries') \ BagToSet(queries) :
              q.classes = tiers(currentZoomLevel)
         /\ \A z \in ZoomLevels : PlaceClasses(z) = tiers(z)
         /\ PlaceClasses(8) = {"city"} /\ PlaceClasses(9) = {"city", "town"}
         /\ PlaceClasses(11) = {"city", "town"} /\ PlaceClasses(12) = broad]_vars

C23_Witness ==
  /\ currentZoomLevel = CloseZoom
  /\ \E q \in BagToSet(queries) : q.classes = {"city", "town"}
  /\ lastEvent.tag = "zoom" /\ lastResult.state = "pending"

\* C25: an entry of the weather cache is never removed: whatever happens
\* (responses, failed fetches, clear passes, zooms), a place that has a
\* snapshot in the cache keeps one.
C25_CacheOnlyGrows ==
  [][\A id \in PlaceIds : weatherCache[id] /= NoEntry => weatherCache'[id] /= NoEntry]_vars

C25_Witness ==
  /\ \E id \in PlaceIds : weatherCache[id] /= NoEntry
  /\ lastEvent.tag = "zoom" /\ lastEvent.removedSome /\ markers = <<>>
  /\ lastResult.state = "failed"

\* C26: when a batch of places is handed to addMarkersForLocations, a
\* place whose id is in markerLocationIds gets no weather request and no
\* marker and the markers there are stay as they are; for every other
\* place of the batch the gateway is called: a request is in flight for
\* it, or its cached snapshot has made its marker at once.
C26_BatchSkipsLiveIds ==
  [][(queries' /= queries /\ lastResult'.state = "done") =>
       LET inFlight(bag, id) == CopiesIn(Request(id, "marker"), bag)
           made == {markers'[i].id : i \in (Len(markers) + 1)..Len(markers')}
       IN  /\ Len(markers') >= Len(markers)
           /\ \A i \in 1..Len(markers) : markers'[i] = markers[i]
           /\ \A id \in lastResult'.ids \cap markerLocationIds :
                /\ inFlight(weatherRequests', id) = inFlight(weatherRequests, id)
                /\ id \notin made
           /\ \A id \in lastResult'.ids \ markerLocationIds :
                IF weatherCache[id] /= NoEntry
                THEN id \in made /\ inFlight(weatherRequests', id) = inFlight(weatherRequests, id)
                ELSE id \notin made
                     /\ inFlight(weatherRequests', id) = inFlight(weatherRequests, id) + 1]_vars

C26_Witness ==
  /\ lastResult.state = "done"
  /\ lastEvent.tag = "pan" /\ lastEvent.keptSome
  /\ \E i \in 1..Len(markers) : markers[i].id \in lastResult.ids
  /\ \E id \in lastResult.ids :
       /\ CopiesIn(Request(id, "marker"), weatherRequests) = 1
       /\ id \notin markerLocationIds

\* C27: in the state that follows the clear pass of a pan-tagged event
\* every marker left lies inside the map's bounds, and the id of every
\* marker removed is out of markerLocationIds and its handle out of
\* markerToLocationId.
C27_PanPassRemovesOutOfBounds ==
  [][PanPass =>
       /\ \A j \in 1..Len(markers') : InMapBounds(markers'[j])
       /\ \A i \in 1..Len(markers) :
            ~InMapBounds(markers[i]) =>
              /\ markers[i].id \notin markerLocationIds'
              /\ markers[i].h \notin DOMAIN markerToLocationId']_vars

C27_Witness ==
  /\ lastEvent.tag = "pan" /\ lastEvent.removedSome /\ ~lastEvent.keptSome
  /\ lastResult.state = "pending"
  /\ markers = <<>> /\ markerLocationIds = {}
  /\ \E id \in PlaceIds : weatherCache[id] /= NoEntry

\* C28: the step that takes a zoom-tagged event removes every marker,
\* wherever it lies, and empties markerLocationIds and markerToLocationId
\* before it sends the query for the event's bounds: in the state in which
\* that query starts the three are empty.
C28_ZoomPassClearsAll ==
  [][(EmitDue /\ pending.isZoomChange /\ pending' = NoEvent) =>
       /\ markers' = <<>>
       /\ markerLocationIds' = {}
       /\ markerToLocationId' = <<>>
       /\ queries' = SetToBag({NewQuery(pending, currentZoomLevel)})]_vars

C28_Witness ==
  /\ lastEvent.tag = "zoom" /\ lastEvent.removedSome
  /\ markers = <<>> /\ markerLocationIds = {} /\ markerToLocationId = <<>>
  /\ BagCardinality(queries) = 1 /\ lastResult.state = "pending"

\* C35: the id set holds exactly the place ids of the markers rendered,
\* and the marker-to-id map has exactly the markers rendered as its keys,
\* each with the id of its place.
C35_StructuresAgree ==
  /\ markerLocationIds = {markers[i].id : i \in 1..Len(markers)}
  /\ DOMAIN markerToLocationId = Handles(markers)
  /\ \A i \in 1..Len(markers) : markerToLocationId[markers[i].h] = markers[i].id

\* A pan pass has removed one marker and kept another, and a marker has
\* been made since.
C35_Witness ==
  /\ lastEvent = Pass("pan", TRUE, TRUE)
  /\ Len(markers) = MaxMarkers
  /\ Cardinality(markerLocationIds) = MaxMarkers

\* C36: a place list reaches addMarkersForLocations through the pipeline
\* only as the answer to the query of the newest emitted event: when a list
\* is delivered, that query is the only one subscribed, it has not been
\* answered before, and the list is the one of its bounds.
C36_OnlyNewestQueryDelivers ==
  [][(queries' /= queries /\ lastResult'.state = "done") =>
       /\ lastResult.state = "pending"
       /\ BagCardinality(queries) = 1 /\ queries' = EmptyBag
       /\ \A q \in BagToSet(queries) :
            lastResult'.ids =
              {n.id : n \in {m \in OverpassNodes :
                               /\ \E i \in 1..Len(WorldNodes) : WorldNodes[i] = m
                               /\ m.place \in q.classes
                               /\ q.west <= Lon(m.id) /\ Lon(m.id) <= q.east
                               /\ KeepLocation(ToLocation(m), currentZoomLevel)}}]_vars

\* The query of a pan-tagged event is in flight after a zoom pass (the
\* flag is reset), and no place list has been delivered so far (nothing is
\* cached, asked for or rendered, and every view holds a place): the query
\* of the zoom pass was in flight when it was replaced.
C36_Witness ==
  /\ lastEvent.tag = "pan" /\ ~markersAddedDuringInit
  /\ BagCardinality(queries) = 1 /\ lastResult.state = "pending"
  /\ weatherRequests = EmptyBag /\ markers = <<>>
  /\ \A id \in PlaceIds : weatherCache[id] = NoEntry

\* C37 as stated: once the weather fetch for a place has delivered null,
\* the place's id is not in the id set and nothing is cached for it.
C37_NullLeavesPlaceUnmarked ==
  [][\A req \in BagToSet(weatherRequests) :
       WeatherResponse(req, Null) =>
         /\ req.id \notin markerLocationIds'
         /\ weatherCache'[req.id] = NoEntry]_vars

\* C37, amended: a weather fetch that delivers null adds nothing: the id
\* set, the cache and the markers stay as they are; and a place list
\* delivered while a place of it has no id in the set and no snapshot cached
\* issues a new weather request for it.
C37_NullAddsNothing ==
  [][/\ \A req \in BagToSet(weatherRequests) :
          WeatherResponse(req, Null) =>
            /\ markerLocationIds' = markerLocationIds
            /\ weatherCache' = weatherCache
            /\ markers' = markers
     /\ (queries' /= queries /\ lastResult'.state = "done") =>
          \A id \in lastResult'.ids :
            (id \notin markerLocationIds /\ weatherCache[id] = NoEntry) =>
              CopiesIn(Request(id, "marker"), weatherRequests')
                = CopiesIn(Request(id, "marker"), weatherRequests) + 1]_vars

\* The last place list held Lerma; its weather request has come back and
\* nothing is cached for it (it delivered null): Lerma has no id in the
\* set. Madrid, of the same list, has its marker.
C37_Witness ==
  /\ lastResult.state = "done" /\ lastResult.ids = {1, 4}
  /\ weatherCache[4] = NoEntry /\ 4 \notin markerLocationIds
  /\ weatherRequests = EmptyBag
  /\ markerLocationIds = {1}

\* C30 as stated: the query of a pan-tagged event that follows a pan of
\* the user covers only the area the pan has revealed, not the whole of
\* the map's bounds (every pan of the model keeps part of the view).
C30_PanQueriesRevealedAreaOnly ==
  [][(PanPass /\ lastGesture = "pan") =>
       \A q \in BagToSet(queries') :
         ~(q.west = mapWest /\ q.east = mapWest + ViewWidth(mapZoom) - 1)]_vars

(***************************************************************************)
(* Properties of the geodata gateway (SpecFetch)                           *)
(***************************************************************************)
IdsOf(locations) == [i \in 1..Len(locations) |-> locations[i].id]

\* The candidates of ranks 0, 5, 9 and 12 (nodes 2, 3, 4, 5) in some order,
\* at zoom 6, processed.
RankCaseDelivered ==
  /\ currentZoomLevel = InitialZoom
  /\ Len(overpassElements) = 4
  /\ {overpassElements[i].id : i \in 1..4} = {2, 3, 4, 5}
  /\ allLocations /= NotYet

\* C8 as stated: at zoom 6 the candidates of ranks 0, 5, 9, 12 come back as
\* the places of rank 0, 5 and 9, in that order.
C8_RanksUpTo9Returned == RankCaseDelivered => IdsOf(allLocations) = <<2, 3, 4>>

\* C8 amended: at zoom 6 the candidates of ranks 0, 5, 9, 12 come back as the
\* places of rank 0 and 5, in that order; ranks 9 and 12 are dropped.
C8_RanksUpToZoomReturned == RankCaseDelivered => IdsOf(allLocations) = <<2, 3>>

C8_Witness == RankCaseDelivered /\ overpassElements[1].id = 5

\* A place with a place tag, a usable name and non-zero coordinates.
NamedLocated(element) ==
  /\ element.place /= ""
  /\ element.name \notin {"", "Unknown"}
  /\ ToLocation(element).latitude /= 0
  /\ ToLocation(element).longitude /= 0

\* C9 as stated: a named, located place is kept if and only if its rank is
\* <= the current zoom level, at every zoom level including 0.
C9_KeptIffRankAtMostZoom ==
  allLocations /= NotYet =>
    \A i \in 1..Len(overpassElements) :
      NamedLocated(overpassElements[i]) =>
        ( (\E k \in 1..Len(allLocations) : allLocations[k].id = overpassElements[i].id)
          <=> JsLeq(ToLocation(overpassElements[i]).capital, Num(currentZoomLevel)) )

(***************************************************************************)
(* Properties of the weather gateway (SpecWeather)                         *)
(***************************************************************************)
\* i and j are the first and the second call made for one place id.
FirstTwoCalls(i, j) ==
  /\ i < j
  /\ calls[i].id = calls[j].id
  /\ \A k \in 1..(j - 1) : k /= i => calls[k].id /= calls[i].id

\* C5 as stated: the first two calls for one place id, whether or not the
\* first had completed when the second was made, are served by exactly one
\* network call in total and deliver equal snapshots.
C5_OneNetworkCallForTwoCalls ==
  \A i, j \in 1..Len(calls) :
    (FirstTwoCalls(i, j) /\ calls[i].got /= Pending /\ calls[j].got /= Pending)
    => /\ Cardinality({k \in {i, j} : calls[k].http}) = 1
       /\ calls[i].got = calls[j].got

\* C5 amended: if the first call for a place id has delivered a snapshot
\* (not null) before the second call for that id is made, the two calls
\* issue exactly one network call in total (the first one's) and the second
\* delivers the snapshot the first delivered.
C5_OneNetworkCallAfterCompletedCall ==
  \A i, j \in 1..Len(calls) :
    (FirstTwoCalls(i, j) /\ i \in calls[j].after)
    => /\ calls[i].http /\ ~calls[j].http
       /\ calls[j].got = calls[i].got

C5_Witness ==
  \E i, j \in 1..Len(calls) :
    /\ FirstTwoCalls(i, j) /\ i \in calls[j].after
    /\ calls[j].got.kind = "data"
    /\ calls[j].got.temperature = 2

\* C14: a gateway call whose HTTP request does not end in a snapshot
\* completes by delivering null (no error reaches the caller), and the
\* cache and the current weather are as before.
C14_FailedCallDeliversNull ==
  [][\A k \in 1..Len(calls) :
       (calls[k].got = Pending /\ calls'[k].got /= Pending
          /\ calls'[k].got \notin Snapshots(calls[k].id))
         => /\ calls'[k].got = Null
            /\ weatherCache' = weatherCache
            /\ currentWeather' = currentWeather
  ]_vars

\* A call has failed and nothing is cached for its place.
C14_Witness ==
  \E k \in 1..Len(calls) :
    calls[k].http /\ calls[k].got = Null /\ ~CacheHas(calls[k].id)

(***************************************************************************)
(* SpecReload: a consumer of MapService that forces reloads of the         *)
(* library, getLeaflet(true), one after the other has settled.             *)
(***************************************************************************)
\* getLeaflet(true): the handle and the counter are reset and loadLeaflet()
\* runs to its first await: the counter is incremented and window.L, which
\* nothing has reset, is checked before any import.
GetLeafletForced ==
  /\ loaderPc = "idle"
  /\ cycles < MaxReloads
  /\ loadAttempts' = 1
  /\ cycles' = cycles + 1
  /\ cycleOutcomes' = <<>>
  /\ IF HasMapConstructor(windowL)
     THEN /\ L' = windowL
          /\ leafletLoadPromise' = windowL
          /\ loaderPc' = "idle"
     ELSE /\ L' = NullHandle
          /\ leafletLoadPromise' = "pending"
          /\ loaderPc' = "importing"
  /\ UNCHANGED <<windowL, failedCycles, ctrlVars, flagVars, notLoader>>

NextReload ==
  \/ GetLeafletForced
  \/ BackoffDone
  \/ \E outcome \in ImportOutcomes : ImportSettles(outcome)
  \/ \E stillThere \in BOOLEAN : SettleDone(stillThere)

SpecReload == InitLoader /\ [][NextReload]_vars

(***************************************************************************)
(* SpecOverlap: loads of the library that overlap. getLeaflet(true), or    *)
(* the reset of ensureLeafletLoaded(), starts loadLeaflet() while earlier  *)
(* calls of it still await their import, backoff or settle delay; all of   *)
(* them read and write the one loadAttempts field. loads[i] is the i-th    *)
(* load started: where it is suspended, the imports it has made (history)  *)
(* and what it returned.                                                   *)
(***************************************************************************)
InitOverlap ==
  /\ platformId = "browser" /\ ForecastIdle /\ SinkIdle
  /\ InitNotStarted
  /\ WeatherIdle /\ calls = <<>>
  /\ currentZoomLevel = InitialZoom
  /\ FetchIdle
  /\ RecIdle

\* Held by every step of this specification.
notOverlap == <<currentZoomLevel, fetchVars, weatherVars, calls, recVars, platformId,
               forecastVars, sinkVars, loaderPc, ctrlVars, flagVars, loadHistory>>

\* The window.L check of load i and what follows it: window.L is returned
\* if it is valid, else the import starts. ls is loads with load i in it,
\* handle what this.L holds, promise what leafletLoadPromise holds while
\* the load runs on.
WindowCheckIn(i, ls, handle, promise) ==
  IF HasMapConstructor(windowL)
  THEN /\ L' = windowL
       /\ loads' = [ls EXCEPT ![i].pc = "returned", ![i].result = windowL]
       /\ leafletLoadPromise' = IF i = Len(ls) THEN windowL ELSE promise
  ELSE /\ L' = handle
       /\ loads' = [ls EXCEPT ![i].pc = "importing", ![i].made = @ + 1]
       /\ leafletLoadPromise' = promise

\* A failed attempt of load i: if (this.loadAttempts < MAX_LOAD_ATTEMPTS)
\* return this.loadLeaflet(), which increments the counter and waits for
\* its backoff (the counter is above 1 then); else return null.
AttemptFailedIn(i) ==
  IF MayRetryLoad
  THEN /\ loadAttempts' = loadAttempts + 1
       /\ loads' = [loads EXCEPT ![i].pc = "backoff"]
       /\ UNCHANGED <<L, leafletLoadPromise>>
  ELSE /\ loads' = [loads EXCEPT ![i].pc = "returned", ![i].result = NullHandle]
       /\ leafletLoadPromise' = IF i = Len(loads) THEN NullHandle ELSE leafletLoadPromise
       /\ UNCHANGED <<L, loadAttempts>>

\* getLeaflet(true), or the reset of ensureLeafletLoaded(): this.L = null,
\* loadAttempts = 0, and loadLeaflet() runs to its first await: the counter
\* goes to 1 and the window.L check is made.
ForceReload ==
  /\ Len(loads) < MaxReloads
  /\ loadAttempts' = 1
  /\ WindowCheckIn(Len(loads) + 1,
                   Append(loads, [pc |-> "entered", made |-> 0, result |-> "none"]),
                   NullHandle, "pending")
  /\ UNCHANGED <<windowL, notOverlap>>

\* The backoff of load i is over.
BackoffDoneIn(i) ==
  /\ loads[i].pc = "backoff"
  /\ WindowCheckIn(i, loads, L, leafletLoadPromise)
  /\ UNCHANGED <<windowL, loadAttempts, notOverlap>>

\* The import of load i settles.
ImportSettlesIn(i, outcome) ==
  /\ loads[i].pc = "importing"
  /\ IF outcome = ValidHandle
     THEN /\ loads' = [loads EXCEPT ![i].pc = "settling"]
          /\ UNCHANGED <<L, leafletLoadPromise, loadAttempts>>
     ELSE AttemptFailedIn(i)
  /\ UNCHANGED <<windowL, notOverlap>>

\* The 200 ms delay of load i is over.
SettleDoneIn(i, stillThere) ==
  /\ loads[i].pc = "settling"
  /\ IF stillThere
     THEN /\ windowL' = ValidHandle
          /\ L' = ValidHandle
          /\ loads' = [loads EXCEPT ![i].pc = "returned", ![i].result = ValidHandle]
          /\ leafletLoadPromise' = IF i = Len(loads) THEN ValidHandle ELSE leafletLoadPromise
          /\ UNCHANGED loadAttempts
     ELSE /\ AttemptFailedIn(i)
          /\ UNCHANGED windowL
  /\ UNCHANGED notOverlap

NextOverlap ==
  \/ ForceReload
  \/ \E i \in 1..Len(loads) : BackoffDoneIn(i)
  \/ \E i \in 1..Len(loads) : \E outcome \in ImportOutcomes : ImportSettlesIn(i, outcome)
  \/ \E i \in 1..Len(loads) : \E stillThere \in BOOLEAN : SettleDoneIn(i, stillThere)

SpecOverlap == InitOverlap /\ [][NextOverlap]_vars

\* C38 as stated: however the loads overlap, each makes at most
\* MAX_LOAD_ATTEMPTS imports of its own.
C38_AttemptsBoundedPerLoad ==
  \A i \in 1..Len(loads) : loads[i].made <= MAX_LOAD_ATTEMPTS

(***************************************************************************)
(* SpecInitialize: one initialization of the map from ngAfterViewInit to   *)
(* its end, the first markers and the viewport listeners included. Each    *)
(* step is the callback of a timer, the settling of an import or the       *)
(* continuation of an async function, all of which the event loop runs     *)
(* once they are due: the next-state relation is weakly fair.              *)
(***************************************************************************)
NextInitialize ==
  \/ NextLoader
  \/ AddWeatherMarkers
  \/ UpdateMarkersOnMapChange

SpecInitialize == InitLoader /\ [][NextInitialize]_vars /\ WF_vars(NextInitialize)

(***************************************************************************)
(* SpecServer: the entry points of HomeComponent, MapService and           *)
(* WeatherService called on either platform. Each action is the entry      *)
(* point with its platform check; in a browser the load then runs on.      *)
(***************************************************************************)
InitServer ==
  /\ platformId \in {"browser", "server"}
  /\ ForecastIdle /\ SinkIdle
  /\ LoaderIdle
  /\ windowL \in (IF platformId = "browser"
                  THEN {NullHandle, ValidHandle, NoMapHandle}
                  ELSE {NullHandle})
  /\ ctrlPc = "initializeMap" /\ retryCount = 0 /\ caller = "none" /\ ctrlDelay = 0
  /\ hasMap = FALSE /\ isInitializing = FALSE /\ markersAddedDuringInit = FALSE
  /\ cycleOutcomes = <<>> /\ cycles = 0 /\ failedCycles = 0
  /\ WeatherIdle /\ calls = <<>>
  /\ currentZoomLevel = InitialZoom
  /\ FetchIdle
  /\ RecIdle

\* The return at a platform check: the caller has its inert result (null,
\* undefined or nothing) and no field has been touched.
ReturnsInert(entry, pc) ==
  /\ caller' = entry
  /\ ctrlPc' = pc
  /\ UNCHANGED <<retryCount, ctrlDelay, loaderVars, flagVars, loadHistory, notLoader>>

\* What getLeaflet() and ensureLeafletLoaded() resolve to once no load is
\* pending.
HandleReturned == IF IsPlatformBrowser THEN GetLeaflet ELSE NullHandle

\* HomeComponent.initializeMap(retryCount)
InitializeMapEntry ==
  IF IsPlatformBrowser
  THEN InitializeMap
  ELSE ReturnsInert("initializeMap", "stopped")

\* MapService.getLeaflet(forceReload)
GetLeafletEntry(forceReload) ==
  IF IsPlatformBrowser
  THEN IF forceReload THEN GetLeafletForced ELSE UNCHANGED vars
  ELSE ReturnsInert("getLeaflet", "returned")

\* MapService.ensureLeafletLoaded()
EnsureLeafletLoadedEntry ==
  IF IsPlatformBrowser
  THEN EnsureLeafletLoaded
  ELSE ReturnsInert("ensureLeafletLoaded", "returned")

\* MapService.initMap(containerId), called with the handle that
\* ensureLeafletLoaded() returned.
InitMapEntry ==
  IF IsPlatformBrowser
  THEN /\ ctrlPc = "loaded"
       /\ \E outcome \in InitMapOutcomes :
            /\ InitMap(outcome)
            /\ ctrlPc' = IF InitMapReturnsMap(outcome) THEN "mapCreated" ELSE "returned"
       /\ caller' = "initMap"
       /\ UNCHANGED <<retryCount, ctrlDelay, windowL, leafletLoadPromise, loadAttempts,
                      loaderPc, loadHistory, notLoader>>
  ELSE ReturnsInert("initMap", "returned")

\* MapService.reloadLeaflet(containerId) up to its 500 ms wait, called
\* after initMap() has returned.
ReloadLeafletEntry ==
  IF IsPlatformBrowser
  THEN /\ ctrlPc \in {"returned", "mapCreated"}
       /\ markersAddedDuringInit' = FALSE
       /\ isInitializing' = TRUE
       /\ hasMap' = FALSE
       /\ ctrlPc' = "reloadWait"
       /\ ctrlDelay' = ReloadWaitMs
       /\ caller' = "reloadLeaflet"
       /\ UNCHANGED <<retryCount, loaderVars, loadHistory, notLoader>>
  ELSE ReturnsInert("reloadLeaflet", "returned")

\* MapService.fetchLocationsFromOverpass(bounds), subscribed: in a browser
\* the query is sent, elsewhere of([]) delivers the empty list.
FetchLocationsFromOverpass(west) ==
  /\ IF IsPlatformBrowser
     THEN /\ queries = EmptyBag
          /\ queries' = SetToBag({NewQuery(Event(west, west + ViewWidth(mapZoom) - 1, FALSE),
                                           currentZoomLevel)})
          /\ lastResult' = Result("pending", {})
     ELSE /\ lastResult' = Result("done", {})
          /\ UNCHANGED queries
  /\ UNCHANGED <<currentZoomLevel, fetchVars, weatherVars, calls, initVars, platformId, forecastVars, sinkVars, loads,
                 mapVars, debounceVars, markerVars, initTimer, lastRaw, sinceRaw,
                 burstEmits, emittedLast, lastGesture, lastEvent>>

\* WeatherService.getWeatherForLocation(location), subscribed: in a browser
\* the cache or an HTTP GET, elsewhere of(null).
GetWeatherForLocation(id) ==
  IF IsPlatformBrowser
  THEN CallCached(id) \/ CallMiss(id)
  ELSE /\ Len(calls) < MaxCalls
       /\ calls' = Append(calls, Call(id, FALSE, Null, DeliveredBefore(id)))
       /\ UNCHANGED <<weatherVars, currentZoomLevel, fetchVars, initVars, recVars,
                      platformId, forecastVars, sinkVars, loads>>

NextServer ==
  \/ InitializeMapEntry
  \/ \E forceReload \in BOOLEAN : GetLeafletEntry(forceReload)
  \/ EnsureLeafletLoadedEntry
  \/ InitMapEntry
  \/ ReloadLeafletEntry
  \/ \E west \in Wests(mapZoom) : FetchLocationsFromOverpass(west)
  \/ \E id \in PlaceIds : GetWeatherForLocation(id)
  \/ BackoffDone
  \/ \E outcome \in ImportOutcomes : ImportSettles(outcome)
  \/ \E stillThere \in BOOLEAN : SettleDone(stillThere)
  \/ LoadReturns

SpecServer == InitServer /\ [][NextServer]_vars

\* C24: a gateway call for a place whose snapshot is in the cache delivers
\* that snapshot at once, issues no HTTP GET and leaves the cache as it is.
C24_CacheHitIsLocal ==
  [][(Len(calls') = Len(calls) + 1
        /\ weatherCache[calls'[Len(calls')].id] /= NoEntry) =>
       /\ calls'[Len(calls')].got = weatherCache[calls'[Len(calls')].id]
       /\ ~calls'[Len(calls')].http
       /\ weatherRequests' = weatherRequests
       /\ weatherCache' = weatherCache]_vars

C24_Witness ==
  \E k \in 1..Len(calls) :
    /\ ~calls[k].http /\ calls[k].got.kind = "data"
    /\ calls[k].got = weatherCache[calls[k].id]
    /\ \E i \in 1..(k - 1) : calls[i].id = calls[k].id /\ calls[i].http

\* C29: the places delivered for a response are in non-decreasing order of
\* their rank (capital), every rank being a number.
C29_DeliveredInRankOrder ==
  allLocations /= NotYet =>
    \A i, j \in 1..Len(allLocations) :
      i < j => /\ allLocations[i].capital /= NaN /\ allLocations[j].capital /= NaN
               /\ Val(allLocations[i].capital) <= Val(allLocations[j].capital)

C29_Witness ==
  /\ allLocations /= NotYet /\ Len(allLocations) = 3
  /\ overpassElements[1].id = 4 /\ allLocations[3].id = 4
  /\ allLocations[1].id = 2

\* C40 as stated: no delivered place comes from an element whose capital
\* tag is absent or is neither "yes" nor a decimal number, at any zoom
\* level; a place of capital "yes" has rank 1.
C40_UnrankedNeverReturned ==
  allLocations /= NotYet =>
    \A i \in 1..Len(allLocations) :
      LET capital == NodeById(allLocations[i].id).capital
      IN  /\ capital \in {"yes", "0", "5", "9", "12"}
          /\ capital = "yes" => allLocations[i].capital = Num(1)

(***************************************************************************)
(* Properties of the loader and the controller (SpecLoader)                *)
(***************************************************************************)
AllNoMap == \A i \in 1..Len(cycleOutcomes) : cycleOutcomes[i] = NoMapHandle

\* C6: a load cycle whose imports all yield a handle without the Map
\* constructor makes exactly MAX_LOAD_ATTEMPTS imports and returns null;
\* it never makes one more.
C6_ExactlyThreeAttempts ==
  AllNoMap =>
    /\ Len(cycleOutcomes) <= MAX_LOAD_ATTEMPTS
    /\ (loaderPc = "idle" /\ cycleOutcomes /= <<>>) =>
         (Len(cycleOutcomes) = MAX_LOAD_ATTEMPTS /\ leafletLoadPromise = NullHandle)

C6_Witness ==
  /\ AllNoMap /\ Len(cycleOutcomes) = MAX_LOAD_ATTEMPTS
  /\ loaderPc = "idle" /\ leafletLoadPromise = NullHandle

\* C7 as stated: once a load cycle has returned the terminal failure, no
\* caller starts another import attempt.
C7_NoLoadAfterTerminalFailure == failedCycles > 0 => loaderPc = "idle"

\* C7 amended: after a terminal failure the callers start further load
\* cycles only within the controller's bounded retry: at most
\* 1 + 2 * MaxInitRetries cycles run, and once the controller has given up
\* no cycle is running and no step is left to start one.
C7_LoadCyclesBounded ==
  /\ cycles <= 1 + 2 * MaxInitRetries
  /\ ctrlPc = "gaveUp" =>
       (loaderPc = "idle" /\ retryCount = MaxInitRetries /\ ~ENABLED NextLoader)

C7_Witness == ctrlPc = "gaveUp" /\ failedCycles = 1 + 2 * MaxInitRetries

\* The handles a caller may receive or MapService.L may hold: null or the
\* library with its Map constructor.
UsableOrNull == {NullHandle, ValidHandle}

\* An import has just resolved to a handle without the Map constructor.
ImportWithoutMap ==
  /\ Len(cycleOutcomes') = Len(cycleOutcomes) + 1
  /\ cycleOutcomes'[Len(cycleOutcomes')] = NoMapHandle

\* C16: every handle held in MapService.L, held by the load promise or
\* returned by ensureLeafletLoaded is null or exposes the Map constructor;
\* an import that yields a handle without Map is a failed attempt: it is
\* not stored, not published to window.L and not returned as a success.
C16_HandlesExposeMap ==
  [][/\ L' \in UsableOrNull
     /\ leafletLoadPromise' \in UsableOrNull \cup {"none", "pending"}
     /\ (ctrlPc' = "loaded" => GetLeaflet' \in UsableOrNull)
     /\ windowL' /= windowL => HasMapConstructor(windowL')
     /\ ImportWithoutMap =>
          /\ L' = L /\ windowL' = windowL
          /\ leafletLoadPromise' \in {"pending", NullHandle}
          /\ (loadAttempts' = loadAttempts + 1 \/ failedCycles' = failedCycles + 1)]_vars

C16_Witness ==
  /\ \E i \in 1..Len(cycleOutcomes) : cycleOutcomes[i] = NoMapHandle
  /\ windowL = ValidHandle /\ L = ValidHandle /\ ctrlPc = "loaded"

\* A load has succeeded: its promise has resolved to the library.
LoadSucceeded == leafletLoadPromise = ValidHandle

\* loadLeaflet() is entered for a new cycle.
LoadStarts == cycles' = cycles + 1

\* C17: once a load has succeeded it stays so, and a later
\* ensureLeafletLoaded() (with its getLeaflet()) returns that handle at
\* once: no load cycle starts and no import is attempted; and a load that
\* starts while window.L holds a valid handle returns window.L without
\* importing.
C17_SuccessIsMemoized ==
  [][/\ LoadSucceeded =>
          /\ LoadSucceeded' /\ L' = ValidHandle
          /\ cycles' = cycles /\ cycleOutcomes' = cycleOutcomes
          /\ loadAttempts' = loadAttempts /\ loaderPc' = "idle"
          /\ ctrlPc = "ensureLeafletLoaded" =>
               (ctrlPc' = "loaded" /\ GetLeaflet' = leafletLoadPromise)
     /\ (LoadStarts /\ HasMapConstructor(windowL)) =>
          /\ leafletLoadPromise' = windowL /\ L' = windowL
          /\ loaderPc' = "idle" /\ cycleOutcomes' = <<>>]_vars

C17_Witness ==
  /\ ctrlPc = "loaded" /\ caller = "reloadLeaflet"
  /\ GetLeaflet = ValidHandle
  /\ cycles = 1 /\ cycleOutcomes = <<ValidHandle>>

\* C18 as stated: a forced reload made after a load has imported and
\* published the library resets the handle, the counter and window.L and
\* goes on to a real import.
C18_ForcedReloadImportsAgain ==
  [][(LoadStarts /\ LoadSucceeded /\ cycleOutcomes /= <<>>) =>
       /\ loadAttempts' = 1
       /\ windowL' = NullHandle /\ L' = NullHandle
       /\ loaderPc' = "importing"]_vars

(***************************************************************************)
(* Properties of the entry points outside a browser (SpecServer)           *)
(***************************************************************************)
OnServer == platformId = "server"

\* C19: outside a browser every entry point returns its inert result
\* (null, undefined, the empty list, nothing): no load cycle or import
\* starts, no HTTP request or geodata query is sent, no map or marker is
\* made, the initialization flags keep their values, no retry timer is
\* set and no error is raised.
C19_ServerCallsAreInert ==
  [][OnServer =>
       /\ UNCHANGED <<loaderVars, flagVars, loadHistory, retryCount, ctrlDelay>>
       /\ UNCHANGED <<weatherVars, queries, markerVars, mapVars, debounceVars, initTimer>>
       /\ ctrlPc' \in {ctrlPc, "stopped", "returned"}
       /\ HandleReturned' = NullHandle
       /\ ~hasMap'
       /\ \A k \in (Len(calls) + 1)..Len(calls') :
            calls'[k].got = Null /\ ~calls'[k].http
       /\ lastResult' \in {lastResult, Result("done", {})}]_vars

C19_Witness ==
  /\ OnServer
  /\ ctrlPc = "stopped"
  /\ Len(calls) = MaxCalls
  /\ lastResult = Result("done", {})

\* C20 as stated: initializeMap runs with retryCount 0..3 only, the wait
\* before retry n is n seconds, and once the controller has given up
\* (after the third failed retry) nothing is scheduled and no map exists.
C20_BoundedRetriesThenNoMap ==
  /\ retryCount \in 0..MaxInitRetries
  /\ ctrlPc = "retryWait" =>
       (retryCount < MaxInitRetries /\ ctrlDelay = InitRetryMs * (retryCount + 1))
  /\ ctrlPc = "gaveUp" =>
       (retryCount = MaxInitRetries /\ ~ENABLED NextLoader /\ ~hasMap)

(***************************************************************************)
(* Properties of the mapping of a forecast response (SpecForecast)         *)
(***************************************************************************)
\* C32: the forecast has min(5, max(0, n - 1)) entries for n daily entries;
\* entry k is made of the daily entries that follow it by one (today, the
\* first daily entry, is in no entry), and the dates ascend.
C32_ForecastSkipsToday ==
  weatherData.mapped =>
    LET daily == openMeteoResponse.daily
        n == Len(daily.time)
        rest == IF n - 1 > 0 THEN n - 1 ELSE 0
        forecast == weatherData.forecast
    IN  /\ Len(forecast) = IF 5 < rest THEN 5 ELSE rest
        /\ \A k \in 1..Len(forecast) :
             /\ forecast[k].date = daily.time[k + 1]
             /\ forecast[k].date /= daily.time[1]
             /\ forecast[k].description = GetWeatherDescription(daily.weathercode[k + 1])
             /\ forecast[k].temperature.min = daily.temperature_2m_min[k + 1]
             /\ forecast[k].temperature.max = daily.temperature_2m_max[k + 1]
        /\ \A j, k \in 1..Len(forecast) : j < k => forecast[j].date < forecast[k].date

C32_Witness ==
  /\ weatherData.mapped
  /\ Len(openMeteoResponse.daily.time) = 7
  /\ Len(weatherData.forecast) = 5
  /\ weatherData.forecast[5].date = 5

\* C33: a weather code the switch lists is given its condition, any other
\* code the fallback "Desconocido"; every condition has an icon key, and
\* the marker icon has a text of its own for that key.
C33_CodeMappingTotal ==
  LET Conditions == {"Soleado", "Parcialmente nublado", "Nublado", "Niebla", "Llovizna",
                     "Lluvia ligera", "Lluvia intensa", "Nieve", "Tormenta", "Desconocido"}
      Recognised == {0, 1, 2, 3, 45, 48, 51, 53, 55, 61, 63, 65, 71, 73, 75, 80, 81, 82,
                     95, 96, 99}
      Mapped(code, description, icon) ==
        /\ description \in Conditions
        /\ (description = "Desconocido") = (code \notin Recognised)
        /\ icon = GetWeatherIcon(description)
        /\ CreateWeatherIcon(icon) /= "?"
        /\ \A other \in Conditions :
             other /= description => CreateWeatherIcon(GetWeatherIcon(other)) /= CreateWeatherIcon(icon)
  IN  weatherData.mapped =>
        /\ Mapped(openMeteoResponse.current_weather.weathercode,
                  weatherData.description, weatherData.icon)
        /\ \A k \in 1..Len(weatherData.forecast) :
             Mapped(openMeteoResponse.daily.weathercode[k + 1],
                    weatherData.forecast[k].description, weatherData.forecast[k].icon)

C33_Witness ==
  /\ weatherData.mapped
  /\ openMeteoResponse.current_weather.weathercode = 48
  /\ weatherData.icon = "foggy"
  /\ \E k \in 1..Len(weatherData.forecast) : weatherData.forecast[k].icon = "question"

(***************************************************************************)
(* Properties of the whole initialization (SpecInitialize)                 *)
(***************************************************************************)
\* The controller is at rest: the map exists and the listeners are
\* installed, or it has given up at retryCount 3 (handleLeafletLoadError
\* schedules nothing, or initializeMap finds no container and schedules
\* nothing); no retry timer runs and no load is under way.
InitializationOver ==
  /\ \/ ctrlPc = "listening" /\ hasMap
     \/ ctrlPc \in {"gaveUp", "stopped"} /\ retryCount = MaxInitRetries
  /\ ctrlDelay = 0
  /\ loaderPc = "idle"
  /\ leafletLoadPromise /= "pending"

\* C39: with every import and timer completing, the initialization comes to
\* rest for good: the map exists with its viewport listeners installed, or
\* the controller has given up, and then no retry timer and no load cycle
\* is pending.
C39_InitializationTerminates == <>[]InitializationOver

\* The listeners are installed after initializations that failed and were
\* retried.
C39_Witness ==
  /\ InitializationOver
  /\ ctrlPc = "listening"
  /\ retryCount > 0 /\ failedCycles > 0



====
